---- MODULE Spec2Model ----
(***************************************************************************)
(* NAT64 / DNS64 resolver (nat64dns.py): the per-datagram dispatcher       *)
(* DNSServerProtocol.handle_request, the custom synthesis                  *)
(* NAT64Resolver.resolve, the prefix loader load_nat64_prefix_async and    *)
(* the upstream client query_upstream_async / resolve_upstream_dns64.      *)
(*                                                                         *)
(* Text is a sequence of one-character strings.  Python integers that do   *)
(* not fit a machine word (a 128-bit address, a 32-bit IPv4 value) are     *)
(* sequences of eight 16-bit limbs, least significant first, with a sign   *)
(* flag; a negative value keeps the low 128 bits of its two's complement,  *)
(* which is what Python's << and | act on.                                 *)
(***************************************************************************)
EXTENDS Integers, Sequences, FiniteSets, TLC

VARIABLES
    main_pc,    \* position of main(): "start", "bind", "running", "exited"
    listening,  \* TRUE while a listening transport of main() is open
    req,        \* req[t]: the datagram and sender of task t, in order of arrival
    pc,         \* pc[t]: position of task t inside handle_request
    loc,        \* loc[t]: the locals of handle_request in task t
    sent,       \* sent[t]: the calls of self.transport.sendto made by task t
    escaped,    \* tasks whose handle_request ended with an uncaught exception
    fs,         \* the prefix file as the file system shows it
    cache,      \* _NAT64_CACHE
    fileSem,    \* free permits of _THREAD_FILE_SEMAPHORE
    upSem,      \* free permits of loop._upstream_semaphore
    assoc,      \* tasks that hold an open upstream UDP association
    trace,      \* trace[t]: what handling task t has done (calls it made)
    fin,        \* the argument of a call of a pure function under test
    fout,       \* its result
    calls,      \* calls[c]: the c-th call of load_nat64_prefix_async, on its own
    uq,         \* uq[q]: the q-th call of query_upstream_async, on its own
    ucount      \* how many calls of query_upstream_async are at each position

vars == <<main_pc, listening, req, pc, loc, sent, escaped, fs, cache,
          fileSem, upSem, assoc, trace, fin, fout, calls, uq, ucount>>

---------------------------------------------------------------------------
(* Text helpers: the str methods the code uses.                            *)

UPPER ==
    [c \in {"A", "B", "C", "D", "E", "F", "N", "T", "X"} |->
        CASE c = "A" -> "a" [] c = "B" -> "b" [] c = "C" -> "c"
          [] c = "D" -> "d" [] c = "E" -> "e" [] c = "F" -> "f"
          [] c = "N" -> "n" [] c = "T" -> "t" [] c = "X" -> "x"]

\* str.lower
lower(s) == [i \in 1..Len(s) |-> IF s[i] \in DOMAIN UPPER THEN UPPER[s[i]] ELSE s[i]]

\* str.rstrip(ch)
RECURSIVE rstrip(_, _)
rstrip(s, ch) ==
    IF s # <<>> /\ s[Len(s)] = ch THEN rstrip(SubSeq(s, 1, Len(s) - 1), ch) ELSE s

\* str.endswith
endswith(s, suf) ==
    /\ Len(s) >= Len(suf)
    /\ SubSeq(s, Len(s) - Len(suf) + 1, Len(s)) = suf

\* str.startswith
startswith(s, p) ==
    /\ Len(s) >= Len(p)
    /\ SubSeq(s, 1, Len(p)) = p

\* the slice s[:-n] for n > 0
DropLast(s, n) == IF Len(s) > n THEN SubSeq(s, 1, Len(s) - n) ELSE <<>>

\* the slice s[1:]
Drop1(s) == IF s = <<>> THEN <<>> ELSE Tail(s)

\* str.split(sep): always at least one piece; "" splits to [""]
RECURSIVE splitAcc(_, _, _)
splitAcc(s, sep, cur) ==
    IF s = <<>> THEN <<cur>>
    ELSE IF Head(s) = sep THEN <<cur>> \o splitAcc(Tail(s), sep, <<>>)
    ELSE splitAcc(Tail(s), sep, Append(cur, Head(s)))

split(s, sep) == splitAcc(s, sep, <<>>)

\* str.replace(a, b) for one-character a and b
replace(s, a, b) == [i \in 1..Len(s) |-> IF s[i] = a THEN b ELSE s[i]]

DIGITS == <<"0", "1", "2", "3", "4", "5", "6", "7", "8", "9",
            "a", "b", "c", "d", "e", "f">>

DigitVal(c) == (CHOOSE i \in 1..Len(DIGITS) : DIGITS[i] = c) - 1

IsHexDigit(c) == \E i \in 1..Len(DIGITS) : DIGITS[i] = c

IsDecDigit(c) == \E i \in 1..10 : DIGITS[i] = c

RECURSIVE DigitsValue(_, _, _)
DigitsValue(s, base, acc) ==
    IF s = <<>> THEN acc
    ELSE DigitsValue(Tail(s), base, acc * base + DigitVal(Head(s)))

\* int(s, 16): an optional sign, an optional 0x, then one or more hex digits;
\* anything else is ValueError.  (No text of this model holds white space or
\* an underscore, which int() also treats specially.)
int16(s) ==
    LET neg == s # <<>> /\ s[1] = "-"
        u == IF s # <<>> /\ s[1] \in {"-", "+"} THEN Tail(s) ELSE s
        d == IF startswith(u, <<"0", "x">>) THEN SubSeq(u, 3, Len(u)) ELSE u
    IN IF d = <<>> \/ \E i \in 1..Len(d) : ~IsHexDigit(d[i])
       THEN [ok |-> FALSE, val |-> 0]
       ELSE [ok |-> TRUE,
             val |-> IF neg THEN 0 - DigitsValue(d, 16, 0) ELSE DigitsValue(d, 16, 0)]

---------------------------------------------------------------------------
(* Python integers wider than a machine word.                              *)

LIMB == 2^16

NLIMBS == 128 \div 16

\* a Python int n with |n| < 2^31, as sign and two's-complement limbs
FromInt(n) ==
    [neg |-> n < 0,
     limbs |-> [i \in 1..NLIMBS |->
                  IF i = 1 THEN n % LIMB
                  ELSE IF i = 2 THEN (n \div LIMB) % LIMB
                  ELSE IF n < 0 THEN LIMB - 1 ELSE 0]]

RECURSIVE Pow2(_)
Pow2(k) == IF k = 0 THEN 1 ELSE 2 * Pow2(k - 1)

\* x | y on two limbs
RECURSIVE Or16(_, _)
Or16(x, y) ==
    IF x = 0 THEN y
    ELSE IF y = 0 THEN x
    ELSE (IF x % 2 = 1 \/ y % 2 = 1 THEN 1 ELSE 0) + 2 * Or16(x \div 2, y \div 2)

\* x & y on two limbs
RECURSIVE And16(_, _)
And16(x, y) ==
    IF x = 0 \/ y = 0 THEN 0
    ELSE IF x = LIMB - 1 THEN y
    ELSE IF y = LIMB - 1 THEN x
    ELSE (IF x % 2 = 1 /\ y % 2 = 1 THEN 1 ELSE 0) + 2 * And16(x \div 2, y \div 2)

\* a | b
BigOr(a, b) ==
    [neg |-> a.neg \/ b.neg,
     limbs |-> [i \in 1..NLIMBS |-> Or16(a.limbs[i], b.limbs[i])]]

\* a << n
Shl(a, n) ==
    LET q == n \div 16
        r == n % 16
        at(i) == IF i < 1 THEN 0 ELSE a.limbs[i]
    IN [neg |-> a.neg,
        limbs |-> [i \in 1..NLIMBS |->
                     ((at(i - q) * Pow2(r)) % LIMB) + (at(i - q - 1) \div Pow2(16 - r))]]

\* ipaddress.IPv4Address(text): four decimal octets, each 1..3 digits, no
\* leading zero, at most 255; int() of it as a big int.  AddressValueError
\* otherwise.
Octet(s) ==
    IF \/ s = <<>>
       \/ Len(s) > 3
       \/ \E i \in 1..Len(s) : ~IsDecDigit(s[i])
       \/ (Len(s) > 1 /\ s[1] = "0")
    THEN -1
    ELSE IF DigitsValue(s, 10, 0) > 255 THEN -1 ELSE DigitsValue(s, 10, 0)

IPv4Address(s) ==
    LET o == split(s, ".")
    IN IF Len(o) # 4 \/ \E i \in 1..4 : Octet(o[i]) = -1
       THEN [ok |-> FALSE, int |-> FromInt(0)]
       ELSE [ok |-> TRUE,
             int |-> [neg |-> FALSE,
                      limbs |-> [i \in 1..NLIMBS |->
                                   IF i = 1 THEN Octet(o[3]) * 256 + Octet(o[4])
                                   ELSE IF i = 2 THEN Octet(o[1]) * 256 + Octet(o[2])
                                   ELSE 0]]]

\* ipaddress.IPv6Address(int): AddressValueError unless 0 <= int < 2^128
IPv6AddressOk(a) == ~a.neg

---------------------------------------------------------------------------
(* Configuration (nat64dns.py:11-18).                                      *)

NAT64_SUFFIX == <<"n", "a", "t", "6", "4">>

\* int(IPv6Network("64:ff9b:1::/96").network_address)
BASE_INT ==
    [neg |-> FALSE,
     limbs |-> [i \in 1..NLIMBS |->
                  IF i = 8 THEN 100 ELSE IF i = 7 THEN 65435 ELSE IF i = 6 THEN 1 ELSE 0]]

\* 0xFFFFFF
MAX_CUSTOMER == 2^24 - 1

\* 0xFF
MAX_SITE == 2^8 - 1

---------------------------------------------------------------------------
(* NAT64Resolver.resolve                                                   *)

NoMatch == [kind |-> "none"]

Raised(e) == [kind |-> "raise", exc |-> e]

Address(a) == [kind |-> "addr", addr |-> a.limbs]

\* construct with the site id shifted by 40 like the customer id
construct_site40(customer_id, site_id, ipv4_int) ==
    LET constructed_suffix ==
            BigOr(BigOr(Shl(FromInt(customer_id), 40), Shl(FromInt(site_id), 40)),
                  ipv4_int)
        final_int == BigOr(BASE_INT, constructed_suffix)
    IN IF IPv6AddressOk(final_int) THEN Address(final_int)
       ELSE Raised("AddressValueError")

\* construct with the customer id shifted by 32 instead of 40
construct_shift32(customer_id, site_id, ipv4_int) ==
    LET constructed_suffix ==
            BigOr(BigOr(Shl(FromInt(customer_id), 32), Shl(FromInt(site_id), 32)),
                  ipv4_int)
        final_int == BigOr(BASE_INT, constructed_suffix)
    IN IF IPv6AddressOk(final_int) THEN Address(final_int)
       ELSE Raised("AddressValueError")

\* lines 262-268: the address built from the three parsed fields
construct(customer_id, site_id, ipv4_int) ==
    LET constructed_suffix ==
            BigOr(BigOr(Shl(FromInt(customer_id), 40), Shl(FromInt(site_id), 32)),
                  ipv4_int)
        final_int == BigOr(BASE_INT, constructed_suffix)
    IN IF IPv6AddressOk(final_int) THEN Address(final_int)
       ELSE Raised("AddressValueError")

\* idLabels that goes by position only: the last label is the customer id
idLabels_by_position(parts) ==
    LET c == IF Len(parts) = 3
             THEN [customer |-> parts[3], site |-> parts[2]]
             ELSE [customer |-> parts[Len(parts)], site |-> <<"0">>]
    IN [customer |-> IF startswith(c.customer, <<"t">>) THEN Drop1(c.customer)
                     ELSE c.customer,
        site |-> c.site]

\* idLabels whose fallback takes the middle label as the customer id, and
\* whose missing site id is 1
idLabels_legacy_swapped(parts) ==
    LET two == [customer |-> parts[Len(parts)], site |-> <<"1">>]
        three ==
            IF startswith(parts[2], <<"t">>)
            THEN [customer |-> Drop1(parts[2]), site |-> parts[3]]
            ELSE IF startswith(parts[3], <<"t">>)
            THEN [customer |-> Drop1(parts[3]), site |-> parts[2]]
            ELSE [customer |-> parts[2], site |-> parts[3]]
        c == IF Len(parts) = 3 THEN three ELSE two
    IN [customer |-> IF startswith(c.customer, <<"t">>) THEN Drop1(c.customer)
                     ELSE c.customer,
        site |-> c.site]

\* lines 217-239: which label is the customer id and which the site id
idLabels(parts) ==
    LET two == [customer |-> parts[Len(parts)], site |-> <<"0">>]
        three ==
            IF startswith(parts[2], <<"t">>)
            THEN [customer |-> Drop1(parts[2]), site |-> parts[3]]
            ELSE IF startswith(parts[3], <<"t">>)
            THEN [customer |-> Drop1(parts[3]), site |-> parts[2]]
            ELSE [customer |-> parts[3], site |-> parts[2]]
        c == IF Len(parts) = 3 THEN three ELSE two
    IN [customer |-> IF startswith(c.customer, <<"t">>) THEN Drop1(c.customer)
                     ELSE c.customer,
        site |-> c.site]

\* resolve that builds on the cached prefix when there is one, and on the
\* fixed base otherwise
resolve_cached_base(qname_str) ==
    LET clean_qname == rstrip(lower(qname_str), ".")
        content == DropLast(clean_qname, Len(NAT64_SUFFIX) + 1)
        parts == split(content, ".")
        ids == idLabels(parts)
        customer == int16(ids.customer)
        site == int16(ids.site)
        ipv4 == IPv4Address(replace(parts[1], "-", "."))
        base == IF cache.net.kind = "net"
                THEN [neg |-> FALSE, limbs |-> cache.net.addr] ELSE BASE_INT
        final_int ==
            BigOr(base, BigOr(BigOr(Shl(FromInt(customer.val), 40),
                                    Shl(FromInt(site.val), 32)), ipv4.int))
    IN IF ~endswith(clean_qname, NAT64_SUFFIX) THEN NoMatch
       ELSE IF Len(parts) < 2 \/ Len(parts) > 3 THEN NoMatch
       ELSE IF ~customer.ok \/ customer.val > MAX_CUSTOMER THEN NoMatch
       ELSE IF ~site.ok \/ site.val > MAX_SITE THEN NoMatch
       ELSE IF ~ipv4.ok THEN NoMatch
       ELSE IF IPv6AddressOk(final_int) THEN Address(final_int)
       ELSE Raised("AddressValueError")

\* lines 201-268
resolve(qname_str) ==
    LET clean_qname == rstrip(lower(qname_str), ".")
        content == DropLast(clean_qname, Len(NAT64_SUFFIX) + 1)
        parts == split(content, ".")
        ids == idLabels(parts)
        customer == int16(ids.customer)
        site == int16(ids.site)
        ipv4 == IPv4Address(replace(parts[1], "-", "."))
    IN IF ~endswith(clean_qname, NAT64_SUFFIX) THEN NoMatch
       ELSE IF Len(parts) < 2 \/ Len(parts) > 3 THEN NoMatch
       ELSE IF ~customer.ok \/ customer.val > MAX_CUSTOMER THEN NoMatch
       ELSE IF ~site.ok \/ site.val > MAX_SITE THEN NoMatch
       ELSE IF ~ipv4.ok THEN NoMatch
       ELSE construct(customer.val, site.val, ipv4.int)

---------------------------------------------------------------------------
(* The prefix file and load_nat64_prefix_async.                            *)

NAT64_PREFIX_FILE == <<"/", "e", "t", "c", "/", "t", "a", "y", "g", "a", "/", "d", "e", "f", "a", "u", "l", "t", ".", "c", "o", "n", "f">>

\* os.path.realpath(os.path.dirname(NAT64_PREFIX_FILE))
ALLOWED_DIR == <<"/", "e", "t", "c", "/", "t", "a", "y", "g", "a">>

None == [kind |-> "none"]

\* ipaddress.IPv6Network(text, strict=False) on the literals a prefix file of
\* this model can hold: the network address (host bits cleared) and the
\* prefix length; any other text is a ValueError.
NET_96 == [kind |-> "net", addr |-> BASE_INT.limbs, prefixlen |-> 96]

NET_WK == [kind |-> "net",
           addr |-> [i \in 1..NLIMBS |-> IF i = 8 THEN 100 ELSE IF i = 7 THEN 65435 ELSE 0],
           prefixlen |-> 96]

NET_100 == [kind |-> "net",
            addr |-> [i \in 1..NLIMBS |-> IF i = 8 THEN 8193 ELSE IF i = 7 THEN 3512 ELSE 0],
            prefixlen |-> 100]

IPv6Network(text) ==
    IF text = <<"6", "4", ":", "f", "f", "9", "b", ":", "1", ":", ":", "/", "9", "6">> THEN NET_96
    ELSE IF text = <<"6", "4", ":", "f", "f", "9", "b", ":", ":", "/", "9", "6">> THEN NET_WK
    ELSE IF text = <<"2", "0", "0", "1", ":", "d", "b", "8", ":", ":", "/", "1", "0", "0">> THEN NET_100
    ELSE None

\* the contents a prefix file of this model can have, as lines of text
FILE_LINES ==
    [c \in {"v96", "wk", "v100", "bad", "empty", "bare"} |->
        CASE c = "v96" -> << <<"#", " ", "t", "a", "y", "g", "a">>,
                             <<"p", "r", "e", "f", "i", "x", " ", "6", "4", ":", "f", "f", "9", "b", ":", "1", ":", ":", "/", "9", "6">> >>
          [] c = "wk" -> << <<" ", " ", "p", "r", "e", "f", "i", "x", " ", " ", " ", "6", "4", ":", "f", "f", "9", "b", ":", ":", "/", "9", "6", " ", "#", " ", "n", "a", "t", "6", "4">> >>
          [] c = "v100" -> << <<>>, <<"p", "r", "e", "f", "i", "x", " ", "2", "0", "0", "1", ":", "d", "b", "8", ":", ":", "/", "1", "0", "0">> >>
          [] c = "bad" -> << <<"p", "r", "e", "f", "i", "x", " ", "n", "a", "t", "6", "4">> >>
          [] c = "empty" -> << <<"#", " ", "t", "a", "y", "g", "a">> >>
          [] c = "bare" -> << <<"p", "r", "e", "f", "i", "x">>, <<"p", "r", "e", "f", "i", "x", " ", "6", "4", ":", "f", "f", "9", "b", ":", "1", ":", ":", "/", "9", "6">> >>]

\* str.strip() and str.split() on white space
RECURSIVE lstripws(_)
lstripws(s) == IF s # <<>> /\ Head(s) = " " THEN lstripws(Tail(s)) ELSE s

strip(s) == rstrip(lstripws(s), " ")

RECURSIVE dropEmpty(_)
dropEmpty(ss) ==
    IF ss = <<>> THEN <<>>
    ELSE IF Head(ss) = <<>> THEN dropEmpty(Tail(ss))
    ELSE <<Head(ss)>> \o dropEmpty(Tail(ss))

splitws(s) == dropEmpty(split(s, " "))

\* lines 153-174: the first usable prefix line of the file.  "prefix": the
\* text of a valid literal; "invalid": a prefix line whose literal is not a
\* network; "none": no prefix line.
RECURSIVE scanLines(_)
scanLines(lines) ==
    IF lines = <<>> THEN [kind |-> "none"]
    ELSE LET line == strip(Head(lines))
             parts == splitws(line)
         IN IF line = <<>> \/ startswith(line, <<"#">>) THEN scanLines(Tail(lines))
            ELSE IF startswith(line, <<"p", "r", "e", "f", "i", "x">>) /\ Len(parts) >= 2
            THEN IF IPv6Network(parts[2]) = None THEN [kind |-> "invalid"]
                 ELSE [kind |-> "prefix", text |-> parts[2]]
            ELSE scanLines(Tail(lines))

Some(x) == [kind |-> "some", v |-> x]

\* _NAT64_CACHE as created at line 316: every field None
EmptyCache == [net |-> None, raw |-> None, mtime |-> None, path |-> None]

\* lines 124-185, the body run on an executor thread: the value returned and
\* the cache it leaves.  f is the file system's answer at the time of the
\* call: the real path, the outcome of stat ("ok", "missing", "denied"), the
\* modification time, the outcome of open and the content.
read_and_parse(f, c) ==
    LET mtime == IF f.stat = "ok" THEN Some(f.mtime) ELSE None
        hit == /\ c.net # None
               /\ c.path = Some(f.real_path)
               /\ c.mtime = mtime
               /\ mtime # None
        found == scanLines(FILE_LINES[f.content])
    IN IF ~startswith(f.real_path, ALLOWED_DIR) THEN [ret |-> None, cache |-> c]
       ELSE IF f.stat = "denied" THEN [ret |-> None, cache |-> c]
       ELSE IF hit THEN [ret |-> c.raw, cache |-> c]
       ELSE IF f.open # "ok" THEN [ret |-> None, cache |-> c]
       ELSE IF found.kind # "prefix" THEN [ret |-> None, cache |-> c]
       ELSE [ret |-> Some(found.text),
             cache |-> [net |-> IPv6Network(found.text), raw |-> Some(found.text),
                        mtime |-> mtime, path |-> Some(f.real_path)]]

\* lines 187-198: what load_nat64_prefix_async returns for the thread's value
loadResult(ret) == IF ret = None THEN None ELSE IPv6Network(ret.v)

---------------------------------------------------------------------------
(* resolve_upstream_dns64 and the pieces of query_upstream_async.          *)

\* asyncio.Semaphore(64), line 80
UPSTREAM_PERMITS == 64

\* threading.Semaphore(8), line 319
FILE_PERMITS == 8

\* 0xFFFFFFFF
MASK32 == [neg |-> FALSE, limbs |-> [i \in 1..NLIMBS |-> IF i <= 2 THEN LIMB - 1 ELSE 0]]

\* a & b
BigAnd(a, b) ==
    [neg |-> a.neg /\ b.neg,
     limbs |-> [i \in 1..NLIMBS |-> And16(a.limbs[i], b.limbs[i])]]

\* lines 297-303: one address per A record, in the order of the reply
RECURSIVE synthesizeRRs(_, _)
synthesizeRRs(rrs, prefix_int) ==
    IF rrs = <<>> THEN [ok |-> TRUE, ips |-> <<>>]
    ELSE LET rr == Head(rrs)
             rest == synthesizeRRs(Tail(rrs), prefix_int)
             ipv4_addr == IPv4Address(rr.rdata)
             synth_int == BigOr(prefix_int, BigAnd(ipv4_addr.int, MASK32))
         IN IF rr.rtype # "A" THEN rest
            ELSE IF ~ipv4_addr.ok \/ ~IPv6AddressOk(synth_int) \/ ~rest.ok
            THEN [ok |-> FALSE, ips |-> <<>>]
            ELSE [ok |-> TRUE, ips |-> <<synth_int.limbs>> \o rest.ips]

\* synthesize without the test of the host bits
synthesize_no_guard(response_data, nat64_net) ==
    LET r == synthesizeRRs(response_data.rr, [neg |-> FALSE, limbs |-> nat64_net.addr])
    IN IF response_data = None \/ response_data.wire = "empty" THEN <<>>
       ELSE IF response_data.wire = "malformed" THEN <<>>
       ELSE IF ~r.ok THEN <<>>
       ELSE r.ips

\* synthesize with the addresses in the reverse of the reply's order
synthesize_reversed(response_data, nat64_net) ==
    LET host_bits == 128 - nat64_net.prefixlen
        r == synthesizeRRs(response_data.rr, [neg |-> FALSE, limbs |-> nat64_net.addr])
    IN IF response_data = None \/ response_data.wire = "empty" THEN <<>>
       ELSE IF response_data.wire = "malformed" THEN <<>>
       ELSE IF host_bits < 32 THEN <<>>
       ELSE IF ~r.ok THEN <<>>
       ELSE [i \in 1..Len(r.ips) |-> r.ips[Len(r.ips) + 1 - i]]

\* lines 283-309: the list resolve_upstream_dns64 returns for what
\* query_upstream_async returned (None, or the bytes of a datagram)
synthesize(response_data, nat64_net) ==
    LET host_bits == 128 - nat64_net.prefixlen
        r == synthesizeRRs(response_data.rr, [neg |-> FALSE, limbs |-> nat64_net.addr])
    IN IF response_data = None \/ response_data.wire = "empty" THEN <<>>
       ELSE IF response_data.wire = "malformed" THEN <<>>
       ELSE IF host_bits < 32 THEN <<>>
       ELSE IF ~r.ok THEN <<>>
       ELSE r.ips

---------------------------------------------------------------------------
(* DNSServerProtocol.handle_request: the reply it builds.  A message is    *)
(* kept in its decoded form: the wire codec is dnslib's.                   *)

\* TTL of a custom answer, line 352
CUSTOM_TTL == 300

\* TTL of a DNS64 answer, line 372
DNS64_TTL == 60

\* DNSHeader without the authoritative flag
DNSHeader_no_aa(id) == [id |-> id, qr |-> 1, aa |-> 0, ra |-> 1, rcode |-> "NOERROR"]

\* DNSHeader(id=request.header.id, qr=1, aa=1, ra=1): rcode defaults to NOERROR
DNSHeader(id) == [id |-> id, qr |-> 1, aa |-> 1, ra |-> 1, rcode |-> "NOERROR"]

\* line 336: the reply before any answer is added
newReply(request) == [header |-> DNSHeader(request.id), q |-> request.q, rr |-> <<>>]

\* RR(rname=qname, rtype=QTYPE.AAAA, rclass=1, ttl=ttl, rdata=AAAA(str(ip)))
RR(qname, ttl, ip) == [rname |-> qname, rtype |-> "AAAA", ttl |-> ttl, rdata |-> ip]

\* lines 380, 385 and 388: reply.header.rcode = RCODE.NOERROR, no answer
noErrorReply(request) == [newReply(request) EXCEPT !.header.rcode = "NOERROR"]

\* customReply with the TTL of the DNS64 answers
customReply_ttl60(request, result_ip) ==
    [newReply(request) EXCEPT
        !.rr = <<RR(request.q.qname, DNS64_TTL, result_ip.addr)>>]

\* lines 346-355
customReply(request, result_ip) ==
    [newReply(request) EXCEPT
        !.rr = <<RR(request.q.qname, CUSTOM_TTL, result_ip.addr)>>]

\* dns64Reply with the answers in reverse order
dns64Reply_reversed(request, synthesized_ips) ==
    [newReply(request) EXCEPT
        !.rr = [i \in 1..Len(synthesized_ips) |->
                  RR(request.q.qname, DNS64_TTL,
                     synthesized_ips[Len(synthesized_ips) + 1 - i])]]

\* lines 365-383
dns64Reply(request, synthesized_ips) ==
    IF synthesized_ips # <<>>
    THEN [newReply(request) EXCEPT
            !.rr = [i \in 1..Len(synthesized_ips) |->
                      RR(request.q.qname, DNS64_TTL, synthesized_ips[i])]]
    ELSE noErrorReply(request)

\* a handler that catches the codec's errors only
IsException_parse_only(e) == e \in {"DNSError"}

\* line 392, except Exception: every exception the handler's body can raise
\* derives from Exception
IsException(e) == e \in {"DNSError", "AddressValueError", "ValueError", "OSError"}

---------------------------------------------------------------------------
(* The datagrams, files and upstream events the model draws from.          *)

MaxDatagrams == 2

Q_CUSTOM == <<"1", "9", "2", "-", "0", "-", "2", "-", "1", ".", "t", "0", "0", "0", "0", "0", "1", ".", "n", "a", "t", "6", "4", ".">>

Q_PLAIN == <<"e", "x", "a", "m", "p", "l", "e", ".", "c", "o", "m", ".">>

Q_NEG == <<"1", "9", "2", "-", "0", "-", "2", "-", "1", ".", "t", "-", "1", ".", "n", "a", "t", "6", "4", ".">>

Query(addr, id, qname, qtype) ==
    [wire |-> "query", addr |-> addr, id |-> id,
     q |-> [qname |-> qname, qtype |-> qtype]]

\* a datagram that DNSRecord.parse rejects
Malformed == [wire |-> "malformed", addr |-> "client2"]

Datagrams ==
    {Query("client1", 1, Q_CUSTOM, "AAAA"), Query("client2", 2, Q_PLAIN, "AAAA"),
     Query("client1", 3, Q_NEG, "AAAA"), Query("client2", 4, Q_PLAIN, "A"),
     Query("client1", 65535, Q_CUSTOM, "MX"), Malformed}

PresentFile(content, m) ==
    [real_path |-> NAT64_PREFIX_FILE, stat |-> "ok", open |-> "ok",
     content |-> content, mtime |-> m]

MissingFile ==
    [real_path |-> NAT64_PREFIX_FILE, stat |-> "missing", open |-> "missing",
     content |-> "empty", mtime |-> 0]

\* the versions of the prefix file: each content has its own modification time
Files == {PresentFile("v96", 1), PresentFile("v100", 2), MissingFile}

A_REC_1 == [rtype |-> "A", rdata |-> <<"1", "9", "2", ".", "0", ".", "2", ".", "1">>]

A_REC_2 == [rtype |-> "A", rdata |-> <<"1", "9", "8", ".", "5", "1", ".", "1", "0", "0", ".", "7">>]

CNAME_REC == [rtype |-> "CNAME", rdata |-> <<"w", "w", "w", ".", "e", "x", "a", "m", "p", "l", "e", ".", "c", "o", "m", ".">>]

UpstreamEvents ==
    {[kind |-> "timeout"], [kind |-> "error"], [kind |-> "lost"],
     [kind |-> "datagram", data |-> [wire |-> "malformed"]],
     [kind |-> "datagram", data |-> [wire |-> "reply", rr |-> <<>>]],
     [kind |-> "datagram", data |-> [wire |-> "reply", rr |-> <<CNAME_REC, A_REC_2, A_REC_1>>]]}

---------------------------------------------------------------------------
(* State.                                                                  *)

Tasks == 1..Len(req)

\* what a task has done so far: the calls of resolve, of
\* load_nat64_prefix_async, the permits taken, the questions sent upstream,
\* the exception its handler caught, whether an earlier task had already
\* faulted when its datagram arrived, and what query_upstream_async returned
\* to it (None or the bytes of a datagram)
NoTrace ==
    [resolve |-> 0, load |-> 0, permit |-> 0, query |-> 0, fault |-> "none",
     after_fault |-> FALSE, answer |-> "unasked"]

Pending == [kind |-> "pending"]

InitCommon ==
    /\ main_pc = "start"
    /\ listening = FALSE
    /\ req = <<>>
    /\ pc = <<>>
    /\ loc = <<>>
    /\ sent = <<>>
    /\ escaped = {}
    /\ cache = EmptyCache
    /\ fileSem = FILE_PERMITS
    /\ upSem = UPSTREAM_PERMITS
    /\ assoc = {}
    /\ trace = <<>>
    /\ calls = <<>>
    /\ uq = <<>>
    /\ ucount = [waiting |-> 0, holding |-> 0, open |-> 0]

Init ==
    /\ InitCommon
    /\ fs \in Files
    /\ fin = None
    /\ fout = Pending

---------------------------------------------------------------------------
(* main()                                                                  *)

\* line 398: the initial load, which fills the cache when the file is valid
MainInitialCheck ==
    /\ main_pc = "start"
    /\ main_pc' = "bind"
    /\ cache' = read_and_parse(fs, cache).cache
    /\ UNCHANGED <<listening, req, pc, loc, sent, escaped, fs, fileSem, upSem,
                   assoc, trace, fin, fout, calls, uq, ucount>>

\* lines 403-428: with at least one transport bound the server runs, with
\* none main returns
MainBind(bound) ==
    /\ main_pc = "bind"
    /\ main_pc' = IF bound THEN "running" ELSE "exited"
    /\ listening' = bound
    /\ UNCHANGED <<req, pc, loc, sent, escaped, fs, cache, fileSem, upSem,
                   assoc, trace, fin, fout, calls, uq, ucount>>

\* the environment replaces, removes or creates the prefix file
FileChange(f) ==
    /\ f # fs
    /\ fs' = f
    /\ UNCHANGED <<main_pc, listening, req, pc, loc, sent, escaped, cache,
                   fileSem, upSem, assoc, trace, fin, fout, calls, uq, ucount>>

---------------------------------------------------------------------------
(* DNSServerProtocol                                                       *)

\* lines 326-328: one task per datagram
datagram_received(d) ==
    /\ listening
    /\ Len(req) < MaxDatagrams
    /\ req' = Append(req, d)
    /\ pc' = Append(pc, "start")
    /\ loc' = Append(loc, [nat64_net |-> None, synthesized_ips |-> <<>>])
    /\ trace' = Append(trace, [NoTrace EXCEPT
                    !.after_fault = \E u \in Tasks : trace[u].fault # "none"])
    /\ sent' = Append(sent, <<>>)
    /\ UNCHANGED <<main_pc, listening, escaped, fs, cache, fileSem, upSem,
                   assoc, fin, fout, calls, uq, ucount>>

\* line 390: self.transport.sendto(reply.pack(), addr)
sendto(t, reply) ==
    [sent EXCEPT ![t] = Append(@, [addr |-> req[t].addr, reply |-> reply])]

\* startOutcome that answers at once for A queries only, and tries the
\* synthesis for every other type
startOutcome_only_a(d) ==
    LET result_ip == resolve(d.q.qname)
    IN IF d.wire = "malformed"
       THEN [next |-> "fault", exc |-> "DNSError", resolve |-> 0]
       ELSE IF d.q.qtype = "A"
       THEN [next |-> "reply", reply |-> noErrorReply(d), resolve |-> 0]
       ELSE IF result_ip.kind = "raise"
       THEN [next |-> "fault", exc |-> result_ip.exc, resolve |-> 1]
       ELSE IF result_ip.kind = "addr"
       THEN [next |-> "reply", reply |-> customReply(d, result_ip), resolve |-> 1]
       ELSE [next |-> "load", resolve |-> 1]

\* lines 331-356 and 387-390: handle_request up to its first suspension
startOutcome(d) ==
    LET result_ip == resolve(d.q.qname)
    IN IF d.wire = "malformed"
       THEN [next |-> "fault", exc |-> "DNSError", resolve |-> 0]
       ELSE IF d.q.qtype # "AAAA"
       THEN [next |-> "reply", reply |-> noErrorReply(d), resolve |-> 0]
       ELSE IF result_ip.kind = "raise"
       THEN [next |-> "fault", exc |-> result_ip.exc, resolve |-> 1]
       ELSE IF result_ip.kind = "addr"
       THEN [next |-> "reply", reply |-> customReply(d, result_ip), resolve |-> 1]
       ELSE [next |-> "load", resolve |-> 1]

\* startOutcome of each datagram of the model, worked out once
startOutcomes == [d \in Datagrams |-> startOutcome(d)]

\* HandleStart that starts a handler only when every earlier one has finished
HandleStart_in_order(t) ==
    /\ t \in Tasks
    /\ pc[t] = "start"
    /\ \A u \in 1..(t - 1) : pc[u] = "done"
    /\ \E o \in {startOutcomes[req[t]]} :
          /\ pc' = [pc EXCEPT ![t] = IF o.next = "load" THEN "load_prefix" ELSE "done"]
          /\ sent' = IF o.next = "reply" THEN sendto(t, o.reply) ELSE sent
          /\ escaped' = IF o.next = "fault" /\ ~IsException(o.exc)
                        THEN escaped \cup {t} ELSE escaped
          /\ trace' = [trace EXCEPT ![t].resolve = o.resolve,
                                    ![t].fault = IF o.next = "fault" THEN o.exc ELSE "none"]
    /\ UNCHANGED <<main_pc, listening, req, loc, fs, cache, fileSem, upSem,
                   assoc, fin, fout, calls, uq, ucount>>

HandleStart(t) ==
    /\ t \in Tasks
    /\ pc[t] = "start"
    /\ \E o \in {startOutcomes[req[t]]} :
          /\ pc' = [pc EXCEPT ![t] = IF o.next = "load" THEN "load_prefix" ELSE "done"]
          /\ sent' = IF o.next = "reply" THEN sendto(t, o.reply) ELSE sent
          /\ escaped' = IF o.next = "fault" /\ ~IsException(o.exc)
                        THEN escaped \cup {t} ELSE escaped
          /\ trace' = [trace EXCEPT ![t].resolve = o.resolve,
                                    ![t].fault = IF o.next = "fault" THEN o.exc ELSE "none"]
    /\ UNCHANGED <<main_pc, listening, req, loc, fs, cache, fileSem, upSem,
                   assoc, fin, fout, calls, uq, ucount>>

\* LoadPrefix that goes on to the upstream query without looking at the prefix
LoadPrefix_always_queries(t) ==
    /\ t \in Tasks
    /\ pc[t] = "load_prefix"
    /\ \E r \in {read_and_parse(fs, cache)} :
          /\ cache' = r.cache
          /\ loc' = [loc EXCEPT ![t].nat64_net = loadResult(r.ret)]
    /\ pc' = [pc EXCEPT ![t] = "await_permit"]
    /\ trace' = [trace EXCEPT ![t].load = @ + 1]
    /\ UNCHANGED <<main_pc, listening, req, sent, escaped, fs, fileSem, upSem,
                   assoc, fin, fout, calls, uq, ucount>>

\* lines 359-361 and 384-390: load_nat64_prefix_async returns to the handler
LoadPrefix(t) ==
    /\ t \in Tasks
    /\ pc[t] = "load_prefix"
    /\ \E r \in {read_and_parse(fs, cache)} : \E nat64_net \in {loadResult(r.ret)} :
          /\ cache' = r.cache
          /\ loc' = [loc EXCEPT ![t].nat64_net = nat64_net]
          /\ pc' = [pc EXCEPT ![t] = IF nat64_net = None THEN "done" ELSE "await_permit"]
          /\ sent' = IF nat64_net = None THEN sendto(t, noErrorReply(req[t])) ELSE sent
    /\ trace' = [trace EXCEPT ![t].load = @ + 1]
    /\ UNCHANGED <<main_pc, listening, req, escaped, fs, fileSem, upSem, assoc,
                   fin, fout, calls, uq, ucount>>

\* line 82: await loop._upstream_semaphore.acquire()
UpstreamAcquire(t) ==
    /\ t \in Tasks
    /\ pc[t] = "await_permit"
    /\ upSem > 0
    /\ upSem' = upSem - 1
    /\ pc' = [pc EXCEPT ![t] = "await_endpoint"]
    /\ trace' = [trace EXCEPT ![t].permit = @ + 1]
    /\ UNCHANGED <<main_pc, listening, req, loc, sent, escaped, fs, cache,
                   fileSem, assoc, fin, fout, calls, uq, ucount>>

\* lines 84-87 and 47-49: the association is created and the question sent,
\* or create_datagram_endpoint raises: then lines 104-111 release the permit,
\* query_upstream_async returns None and the handler replies
UpstreamConnect(t, created) ==
    /\ t \in Tasks
    /\ pc[t] = "await_endpoint"
    /\ IF created
       THEN /\ assoc' = assoc \cup {t}
            /\ trace' = [trace EXCEPT ![t].query = @ + 1]
            /\ pc' = [pc EXCEPT ![t] = "await_reply"]
            /\ UNCHANGED <<upSem, sent, loc>>
       ELSE /\ upSem' = upSem + 1
            /\ pc' = [pc EXCEPT ![t] = "done"]
            /\ \E synthesized_ips \in {synthesize(None, loc[t].nat64_net)} :
                  /\ loc' = [loc EXCEPT ![t].synthesized_ips = synthesized_ips]
                  /\ sent' = sendto(t, dns64Reply(req[t], synthesized_ips))
            /\ trace' = [trace EXCEPT ![t].answer = "none"]
            /\ UNCHANGED assoc
    /\ UNCHANGED <<main_pc, listening, req, escaped, fs, cache, fileSem,
                   fin, fout, calls, uq, ucount>>

\* UpstreamOutcome that asks again, once, when the wait ended without a
\* datagram
UpstreamOutcome_retries(t, ev) ==
    /\ t \in Tasks
    /\ pc[t] = "await_reply"
    /\ assoc' = assoc \ {t}
    /\ upSem' = upSem + 1
    /\ IF ev.kind # "datagram" /\ trace[t].query < 2
       THEN /\ pc' = [pc EXCEPT ![t] = "await_permit"]
            /\ UNCHANGED <<loc, sent, trace>>
       ELSE /\ \E response_data \in {IF ev.kind = "datagram" THEN ev.data ELSE None} :
               \E synthesized_ips \in {synthesize(response_data, loc[t].nat64_net)} :
                  /\ loc' = [loc EXCEPT ![t].synthesized_ips = synthesized_ips]
                  /\ sent' = sendto(t, dns64Reply(req[t], synthesized_ips))
            /\ pc' = [pc EXCEPT ![t] = "done"]
            /\ trace' = [trace EXCEPT ![t].answer = IF ev.kind = "datagram" THEN "data" ELSE "none"]
    /\ UNCHANGED <<main_pc, listening, req, escaped, fs, cache, fileSem,
                   fin, fout, calls, uq, ucount>>

\* lines 89-108, 283-305 and 365-390: the wait ends with a datagram, the
\* timeout, a transport error or a lost connection; the association is
\* closed, the permit released, the answers built and the reply sent
UpstreamOutcome(t, ev) ==
    /\ t \in Tasks
    /\ pc[t] = "await_reply"
    /\ \E response_data \in {IF ev.kind = "datagram" THEN ev.data ELSE None} :
       \E synthesized_ips \in {synthesize(response_data, loc[t].nat64_net)} :
          /\ loc' = [loc EXCEPT ![t].synthesized_ips = synthesized_ips]
          /\ sent' = sendto(t, dns64Reply(req[t], synthesized_ips))
    /\ assoc' = assoc \ {t}
    /\ upSem' = upSem + 1
    /\ pc' = [pc EXCEPT ![t] = "done"]
    /\ trace' = [trace EXCEPT ![t].answer = IF ev.kind = "datagram" THEN "data" ELSE "none"]
    /\ UNCHANGED <<main_pc, listening, req, escaped, fs, cache, fileSem,
                   fin, fout, calls, uq, ucount>>

Next ==
    \/ MainInitialCheck
    \/ \E bound \in BOOLEAN : MainBind(bound)
    \/ \E f \in Files : FileChange(f)
    \/ \E d \in Datagrams : datagram_received(d)
    \/ \E t \in Tasks : HandleStart(t)
    \/ \E t \in Tasks : LoadPrefix(t)
    \/ \E t \in Tasks : UpstreamAcquire(t)
    \/ \E t \in Tasks, created \in BOOLEAN : UpstreamConnect(t, created)
    \/ \E t \in Tasks, ev \in UpstreamEvents : UpstreamOutcome(t, ev)

Spec == Init /\ [][Next]_vars

---------------------------------------------------------------------------
(* NAT64Resolver.resolve on its own: the names it is called with are       *)
(* written from a key (IPv4 octets, customer id, site id) in each of the   *)
(* accepted layouts, or are literal names.                                 *)

RECURSIVE Dec(_)
Dec(n) == IF n < 10 THEN <<DIGITS[n + 1]>> ELSE Dec(n \div 10) \o <<DIGITS[(n % 10) + 1]>>

RECURSIVE Hex(_)
Hex(n) == IF n < 16 THEN <<DIGITS[n + 1]>> ELSE Hex(n \div 16) \o <<DIGITS[(n % 16) + 1]>>

RECURSIVE PadLeft(_, _)
PadLeft(s, n) == IF Len(s) >= n THEN s ELSE PadLeft(<<"0">> \o s, n)

IPLabel(o) == Dec(o[1]) \o <<"-">> \o Dec(o[2]) \o <<"-">> \o Dec(o[3]) \o <<"-">> \o Dec(o[4])

DOT == <<".">>

Layouts3 == {"tc.s", "s.tc", "s.c", "t6c.s"}

Layouts2 == {"tc", "c"}

QName(k, layout) ==
    LET ip == IPLabel(k.ipv4)
        c == Hex(k.customer_id)
        sid == Hex(k.site_id)
        ids == CASE layout = "tc.s" -> <<"t">> \o c \o DOT \o sid
                 [] layout = "s.tc" -> sid \o DOT \o <<"t">> \o c
                 [] layout = "s.c" -> sid \o DOT \o c
                 [] layout = "t6c.s" -> <<"t">> \o PadLeft(c, 6) \o DOT \o sid
                 [] layout = "tc" -> <<"t">> \o c
                 [] layout = "c" -> c
    IN ip \o DOT \o ids \o DOT \o NAT64_SUFFIX \o DOT

Keys ==
    [ipv4 : {<<192, 0, 2, 1>>, <<0, 0, 0, 0>>, <<255, 255, 255, 255>>, <<10, 1, 0, 200>>},
     customer_id : {0, 1, 5592405, 11184810, MAX_CUSTOMER, MAX_CUSTOMER + 1},
     site_id : {0, 1, 171, MAX_SITE, MAX_SITE + 1}]

InRange(k) == k.customer_id <= MAX_CUSTOMER /\ k.site_id <= MAX_SITE

\* test_resolve_invalid_ipv4: octets above 255
Q_BAD_IPV4 == <<"9", "9", "9", "-", "9", "9", "9", "-", "9", "9", "9", "-", "9", "9", "9", ".", "t", "0", "0", "0", "0", "0", "1", ".", "n", "a", "t", "6", "4", ".">>

\* a last label that only ends with the characters of the suffix
Q_TAIL == <<"1", "-", "2", "-", "3", "-", "4", ".", "t", "1", "x", "n", "a", "t", "6", "4", ".">>

\* a site id label that is a signed numeral
Q_NEG_SITE == <<"1", "-", "2", "-", "3", "-", "4", ".", "1", ".", "-", "1", ".", "n", "a", "t", "6", "4", ".">>

\* upper case, a 0x prefix, no trailing dot
Q_UPPER == <<"1", "-", "2", "-", "3", "-", "4", ".", "T", "0", "x", "A", "B", ".", "F", "F", ".", "N", "A", "T", "6", "4">>

\* an empty customer id after the t
Q_EMPTY_ID == <<"1", "-", "2", "-", "3", "-", "4", ".", "t", ".", "n", "a", "t", "6", "4", ".">>

\* the suffix alone
Q_SUFFIX_ONLY == <<"n", "a", "t", "6", "4", ".">>

LiteralNames ==
    {Q_PLAIN, Q_NEG, Q_BAD_IPV4, Q_TAIL, Q_NEG_SITE, Q_UPPER, Q_EMPTY_ID, Q_SUFFIX_ONLY}

ResolveInputs ==
    {[key |-> k, layout |-> l, qname |-> QName(k, l)] : k \in Keys, l \in Layouts3}
      \cup {[key |-> k, layout |-> l, qname |-> QName(k, l)] :
              k \in {x \in Keys : x.site_id = 0}, l \in Layouts2}
      \cup {[key |-> None, layout |-> "literal", qname |-> n] : n \in LiteralNames}

InitResolve ==
    /\ InitCommon
    /\ fs = MissingFile
    /\ fin \in ResolveInputs
    /\ fout = Pending

\* resolver.resolve(qname), line 344
ResolveCall ==
    /\ fin # None
    /\ fout = Pending
    /\ fout' = resolve(fin.qname)
    /\ UNCHANGED <<main_pc, listening, req, pc, loc, sent, escaped, fs, cache,
                   fileSem, upSem, assoc, trace, fin, calls, uq, ucount>>

NextResolve == ResolveCall

SpecResolve == InitResolve /\ [][NextResolve]_vars

---------------------------------------------------------------------------
(* Two calls of resolve, in either order, on names written from two keys.  *)

PairKeys ==
    [ipv4 : {<<192, 0, 2, 1>>, <<192, 0, 2, 2>>},
     customer_id : {0, 1, 256, MAX_CUSTOMER},
     site_id : {0, 1, MAX_SITE}]

PairInputs ==
    {[kind |-> "pair",
      a |-> [key |-> j, layout |-> "tc.s", qname |-> QName(j, "tc.s")],
      b |-> [key |-> k, layout |-> l, qname |-> QName(k, l)]] :
        j \in PairKeys, k \in PairKeys, l \in {"tc.s", "s.c"}}

InitResolvePair ==
    /\ InitCommon
    /\ fs = MissingFile
    /\ fin \in PairInputs
    /\ fout = [kind |-> "pair", a |-> Pending, b |-> Pending]

\* resolver.resolve(qname) for the first name
ResolveFirst ==
    /\ fout.a = Pending
    /\ fout' = [fout EXCEPT !.a = resolve(fin.a.qname)]
    /\ UNCHANGED <<main_pc, listening, req, pc, loc, sent, escaped, fs, cache,
                   fileSem, upSem, assoc, trace, fin, calls, uq, ucount>>

\* resolver.resolve(qname) for the second name
ResolveSecond ==
    /\ fout.b = Pending
    /\ fout' = [fout EXCEPT !.b = resolve(fin.b.qname)]
    /\ UNCHANGED <<main_pc, listening, req, pc, loc, sent, escaped, fs, cache,
                   fileSem, upSem, assoc, trace, fin, calls, uq, ucount>>

NextResolvePair == ResolveFirst \/ ResolveSecond

SpecResolvePair == InitResolvePair /\ [][NextResolvePair]_vars

---------------------------------------------------------------------------
(* Properties of the dispatcher and of resolve.                             *)

Reply(t) == sent[t][1].reply

IsQuery(t) == req[t].wire = "query"

IsAAAA(t) == IsQuery(t) /\ req[t].q.qtype = "AAAA"

\* C1: every datagram that decodes gets exactly one reply, never two, and the
\* reply carries the request's transaction id and question.
C1_ExactlyOneReply ==
    \A t \in Tasks :
        IsQuery(t) =>
            /\ Len(sent[t]) <= 1
            /\ pc[t] = "done" =>
                  /\ Len(sent[t]) = 1
                  /\ Reply(t).header.id = req[t].id
                  /\ Reply(t).q = req[t].q

\* C2: a datagram that fails wire decoding still gets exactly one reply, sent
\* to its sender.
C2_MalformedGetsReply ==
    \A t \in Tasks :
        (req[t].wire = "malformed" /\ pc[t] = "done") =>
            /\ Len(sent[t]) = 1
            /\ sent[t][1].addr = req[t].addr

\* C3: a fault raised while a parsed datagram is handled is caught inside its
\* task and a reply with server-failure status is sent for it.
C3_FaultGetsServfail ==
    \A t \in Tasks :
        (IsQuery(t) /\ trace[t].fault # "none") =>
            /\ t \notin escaped
            /\ pc[t] = "done"
            /\ Len(sent[t]) = 1
            /\ Reply(t).header.rcode = "SERVFAIL"

\* C4: no exception escapes handle_request: a task that faulted has ended
\* and the listener is still up and running, so that datagrams arriving
\* afterwards are still dispatched (C4_Witness: one such datagram handled
\* to its reply).
C4_NoEscape ==
    /\ escaped = {}
    /\ \A t \in Tasks :
          trace[t].fault # "none" =>
              /\ pc[t] = "done"
              /\ listening
              /\ main_pc = "running"

C4_Witness ==
    \E t, u \in Tasks :
        /\ t < u
        /\ trace[t].fault # "none"
        /\ trace[u].after_fault
        /\ pc[u] = "done"
        /\ Len(sent[u]) = 1

\* 64:ff9b:1:: | 1 << 40 | 0 << 32 | 192.0.2.1
ADDR_CUSTOM == <<513, 49152, 256, 0, 0, 1, 65435, 100>>

\* C5: an AAAA query whose name the synthesis matches is answered with one
\* AAAA record of TTL 300 holding the synthesized address, status no-error,
\* and its handling reads no prefix, takes no permit and asks no upstream.
C5_CustomAnswer ==
    \A t \in Tasks :
        (IsAAAA(t) /\ resolve(req[t].q.qname).kind = "addr") =>
            /\ trace[t].load = 0 /\ trace[t].permit = 0 /\ trace[t].query = 0
            /\ pc[t] \in {"start", "done"}
            /\ pc[t] = "done" =>
                  /\ Len(sent[t]) = 1
                  /\ Reply(t).header.rcode = "NOERROR"
                  /\ Len(Reply(t).rr) = 1
                  /\ Reply(t).rr[1].rtype = "AAAA"
                  /\ Reply(t).rr[1].ttl = 300
                  /\ Reply(t).rr[1].rname = req[t].q.qname
                  /\ Reply(t).rr[1].rdata = resolve(req[t].q.qname).addr
                  /\ req[t].q.qname = Q_CUSTOM => Reply(t).rr[1].rdata = ADDR_CUSTOM

C5_Witness ==
    \E t \in Tasks :
        /\ IsAAAA(t)
        /\ req[t].q.qname = Q_CUSTOM
        /\ pc[t] = "done"
        /\ Len(sent[t]) = 1
        /\ Reply(t).rr[1].rdata = ADDR_CUSTOM

\* C6: with no synthesis match and a prefix, the answers are the addresses
\* resolve_upstream_dns64 returned, in its order, one AAAA record of TTL 60
\* each; an empty list gives zero answers and status no-error.
C6_Dns64Answers ==
    \A t \in Tasks :
        (IsAAAA(t) /\ loc[t].nat64_net # None /\ pc[t] = "done") =>
            /\ Len(sent[t]) = 1
            /\ Reply(t).header.rcode = "NOERROR"
            /\ Len(Reply(t).rr) = Len(loc[t].synthesized_ips)
            /\ \A i \in 1..Len(Reply(t).rr) :
                  /\ Reply(t).rr[i].rtype = "AAAA"
                  /\ Reply(t).rr[i].ttl = 60
                  /\ Reply(t).rr[i].rname = req[t].q.qname
                  /\ Reply(t).rr[i].rdata = loc[t].synthesized_ips[i]

\* 64:ff9b:1:: | 198.51.100.7 and 64:ff9b:1:: | 192.0.2.1
C6_Witness ==
    \E t \in Tasks :
        /\ pc[t] = "done"
        /\ loc[t].nat64_net = NET_96
        /\ Len(sent[t]) = 1
        /\ Len(Reply(t).rr) = 2
        /\ Reply(t).rr[1].rdata = <<25607, 50739, 0, 0, 0, 1, 65435, 100>>
        /\ Reply(t).rr[2].rdata = <<513, 49152, 0, 0, 0, 1, 65435, 100>>

\* C7: with no synthesis match, when the prefix load returns unavailable the
\* reply has zero answers and status no-error and no upstream query is sent.
C7_NoPrefixNoUpstream ==
    \A t \in Tasks :
        (trace[t].load > 0 /\ loc[t].nat64_net = None) =>
            /\ pc[t] = "done"
            /\ trace[t].permit = 0
            /\ trace[t].query = 0
            /\ Len(sent[t]) = 1
            /\ Reply(t).header.rcode = "NOERROR"
            /\ Reply(t).rr = <<>>

C7_Witness ==
    \E t \in Tasks :
        /\ IsAAAA(t)
        /\ trace[t].resolve = 1
        /\ trace[t].load = 1
        /\ loc[t].nat64_net = None
        /\ pc[t] = "done"
        /\ Len(sent[t]) = 1

\* C8: a query of any type but AAAA is answered with zero answers and status
\* no-error, and its handling never calls resolve, never loads the prefix
\* and never asks upstream.
C8_NonAAAA ==
    \A t \in Tasks :
        (IsQuery(t) /\ req[t].q.qtype # "AAAA") =>
            /\ trace[t].resolve = 0
            /\ trace[t].load = 0
            /\ trace[t].permit = 0
            /\ trace[t].query = 0
            /\ pc[t] \in {"start", "done"}
            /\ pc[t] = "done" =>
                  /\ Len(sent[t]) = 1
                  /\ Reply(t).header.rcode = "NOERROR"
                  /\ Reply(t).rr = <<>>

C8_Witness ==
    \E t, u \in Tasks :
        /\ IsQuery(t) /\ req[t].q.qtype = "MX" /\ req[t].q.qname = Q_CUSTOM
        /\ IsQuery(u) /\ req[u].q.qtype = "A"
        /\ pc[t] = "done" /\ Len(sent[t]) = 1
        /\ pc[u] = "done" /\ Len(sent[u]) = 1

\* C9: every reply sent has the response, authoritative and
\* recursion-available flags set and rcode no-error.
C9_ReplyFlags ==
    \A t \in Tasks : \A i \in 1..Len(sent[t]) :
        /\ sent[t][i].reply.header.qr = 1
        /\ sent[t][i].reply.header.aa = 1
        /\ sent[t][i].reply.header.ra = 1
        /\ sent[t][i].reply.header.rcode = "NOERROR"

C9_Witness ==
    \E t, u \in Tasks :
        /\ Len(sent[t]) = 1 /\ Len(Reply(t).rr) = 1 /\ Reply(t).rr[1].ttl = 300
        /\ Len(sent[u]) = 1 /\ Len(Reply(u).rr) = 2 /\ Reply(u).rr[1].ttl = 60

\* C10: for a name written from an in-range key, resolve returns the base
\* address with the IPv4 value in bits 0-31, the site id in bits 32-39, the
\* customer id in bits 40-63 and the base's own bits 64-127.
C10_BitLayout ==
    (fout # Pending /\ fin.key # None /\ InRange(fin.key)) =>
        /\ fout.kind = "addr"
        /\ fout.addr[1] = fin.key.ipv4[3] * 256 + fin.key.ipv4[4]
        /\ fout.addr[2] = fin.key.ipv4[1] * 256 + fin.key.ipv4[2]
        /\ fout.addr[3] % 256 = fin.key.site_id
        /\ (fout.addr[3] \div 256) + 256 * fout.addr[4] = fin.key.customer_id
        /\ \A i \in 5..8 : fout.addr[i] = BASE_INT.limbs[i]
        /\ fout.addr[5] = 0 /\ fout.addr[6] = 1
        /\ fout.addr[7] = 65435 /\ fout.addr[8] = 100

C10_Witness ==
    /\ fout # Pending
    /\ fin.key # None
    /\ fin.key.customer_id = MAX_CUSTOMER
    /\ fin.key.site_id = MAX_SITE
    /\ fin.key.ipv4 = <<255, 255, 255, 255>>
    /\ fin.layout = "s.tc"
    /\ fout.kind = "addr"
    /\ fout.addr = <<65535, 65535, 65535, 65535, 0, 1, 65435, 100>>

---------------------------------------------------------------------------
(* load_nat64_prefix_async step by step: each call is queued on the        *)
(* executor, run by one of its worker threads, and touches the file        *)
(* system and the cache at separate moments, between which other calls     *)
(* run and the file is replaced.                                           *)

\* ThreadPoolExecutor(max_workers=4), line 314
FILE_WORKERS == 4

MaxLoads == 3

MaxFileChanges == 1

MaxConcurrent == 5

\* a prefix file path that is a symlink into a sibling directory whose name
\* starts with the name of the configured directory
SIBLING_PATH == <<"/", "e", "t", "c", "/", "t", "a", "y", "g", "a", "-", "e", "v", "i", "l", "/", "d", "e", "f", "a", "u", "l", "t", ".", "c", "o", "n", "f">>

\* a prefix file path that is a symlink out of the configured directory
OUTSIDE_PATH == <<"/", "t", "m", "p", "/", "e", "v", "i", "l", ".", "c", "o", "n", "f">>

SymlinkTo(path) == [PresentFile("v100", 1) EXCEPT !.real_path = path]

LoadFiles == {PresentFile("v96", 1), SymlinkTo(SIBLING_PATH), SymlinkTo(OUTSIDE_PATH)}

Unset == [kind |-> "unset"]

Loads == 1..Len(calls)

\* the _read_and_parse bodies that a worker thread is executing
Bodies == {c \in Loads : calls[c].pc \in {"stat", "check", "open", "update"}}

dispatcherVars ==
    <<main_pc, listening, req, pc, loc, sent, escaped, upSem, assoc, trace, fin, fout,
      uq, ucount>>

InitLoad ==
    /\ InitCommon
    /\ fs \in LoadFiles
    /\ fin = None
    /\ fout = Pending

InitLoadValid ==
    /\ InitCommon
    /\ fs = PresentFile("v96", 1)
    /\ fin = None
    /\ fout = Pending

\* another process replaces the content of the file: a different valid
\* prefix, a later modification time
FileReplace(content) ==
    /\ fs.mtime <= MaxFileChanges
    /\ content # fs.content
    /\ fs' = [fs EXCEPT !.content = content, !.mtime = @ + 1]
    /\ UNCHANGED <<cache, fileSem, calls>>
    /\ UNCHANGED dispatcherVars

\* line 187, loop.run_in_executor(_FILE_IO_EXECUTOR, _read_and_parse): the
\* call is queued.  ver0, file0, warm and waited record what was true when it
\* started: the file's modification time, the file, whether a load of this very file
\* version had already finished and cached it, and whether every worker was
\* busy.  locked tells whether the call's thread holds _NAT64_CACHE_LOCK.
Submit(max) ==
    /\ Len(calls) < max
    /\ calls' = Append(calls,
          [pc |-> "queued", acquired |-> FALSE, real_path |-> Unset,
           mtime |-> Unset, prefix |-> Unset, ret |-> Pending, result |-> Pending,
           opens |-> 0, wrote |-> FALSE, locked |-> FALSE,
           ver0 |-> fs.mtime, file0 |-> fs,
           warm |-> \E d \in Loads :
                       /\ calls[d].pc = "returned"
                       /\ calls[d].wrote
                       /\ calls[d].real_path = Some(fs.real_path)
                       /\ calls[d].mtime = Some(fs.mtime),
           waited |-> Cardinality(Bodies) >= FILE_WORKERS])
    /\ UNCHANGED <<fs, cache, fileSem>>
    /\ UNCHANGED dispatcherVars

\* lines 176-185 and 187-198: the body returns ret, which leaves every with
\* block, the finally clause gives the permit back if one was taken, and the
\* awaiting call turns ret into a network or None
Return(c, rec, ret) ==
    /\ calls' = [calls EXCEPT ![c] =
                    [rec EXCEPT !.pc = "returned", !.ret = ret, !.locked = FALSE,
                                !.result = loadResult(ret)]]
    /\ fileSem' = IF rec.acquired THEN fileSem + 1 ELSE fileSem

\* WorkerStart for an executor that turns a call away when all its workers
\* are busy instead of queueing it
WorkerStart_rejects_when_busy(c) ==
    /\ c \in Loads
    /\ calls[c].pc = "queued"
    /\ \A d \in 1..(c - 1) : calls[d].pc # "queued"
    /\ IF Cardinality(Bodies) >= FILE_WORKERS
       THEN Return(c, calls[c], None)
       ELSE /\ calls' = [calls EXCEPT ![c].pc = "stat", ![c].acquired = fileSem > 0]
            /\ fileSem' = IF fileSem > 0 THEN fileSem - 1 ELSE fileSem
    /\ UNCHANGED <<fs, cache>>
    /\ UNCHANGED dispatcherVars

\* WorkerStart for an executor that starts a thread for every call
WorkerStart_unbounded_pool(c) ==
    /\ c \in Loads
    /\ calls[c].pc = "queued"
    /\ \A d \in 1..(c - 1) : calls[d].pc # "queued"
    /\ calls' = [calls EXCEPT ![c].pc = "stat", ![c].acquired = fileSem > 0]
    /\ fileSem' = IF fileSem > 0 THEN fileSem - 1 ELSE fileSem
    /\ UNCHANGED <<fs, cache>>
    /\ UNCHANGED dispatcherVars

\* a free worker thread takes the oldest queued call and enters the body;
\* line 126: acquire(timeout=5) takes a permit, or gives up with none free
WorkerStart(c) ==
    /\ c \in Loads
    /\ calls[c].pc = "queued"
    /\ \A d \in 1..(c - 1) : calls[d].pc # "queued"
    /\ Cardinality(Bodies) < FILE_WORKERS
    /\ calls' = [calls EXCEPT ![c].pc = "stat", ![c].acquired = fileSem > 0]
    /\ fileSem' = IF fileSem > 0 THEN fileSem - 1 ELSE fileSem
    /\ UNCHANGED <<fs, cache>>
    /\ UNCHANGED dispatcherVars

\* StatStep whose body catches FileNotFoundError only: the PermissionError of
\* stat leaves the call
StatStep_only_file_not_found(c) ==
    /\ c \in Loads
    /\ calls[c].pc = "stat"
    /\ \E rec \in {[calls[c] EXCEPT !.real_path = Some(fs.real_path)]} :
          IF ~startswith(fs.real_path, ALLOWED_DIR)
          THEN Return(c, rec, None)
          ELSE IF fs.stat = "denied"
          THEN /\ calls' = [calls EXCEPT ![c] =
                     [rec EXCEPT !.pc = "returned",
                                 !.result = Raised("PermissionError")]]
               /\ fileSem' = IF rec.acquired THEN fileSem + 1 ELSE fileSem
          ELSE /\ calls' = [calls EXCEPT ![c] =
                     [rec EXCEPT !.pc = "check",
                                 !.mtime = IF fs.stat = "ok" THEN Some(fs.mtime)
                                           ELSE None]]
               /\ UNCHANGED fileSem
    /\ UNCHANGED <<fs, cache>>
    /\ UNCHANGED dispatcherVars

\* lines 128-141: realpath, the test of the directory, stat
StatStep(c) ==
    /\ c \in Loads
    /\ calls[c].pc = "stat"
    /\ \E rec \in {[calls[c] EXCEPT !.real_path = Some(fs.real_path)]} :
          IF ~startswith(fs.real_path, ALLOWED_DIR) \/ fs.stat = "denied"
          THEN Return(c, rec, None)
          ELSE /\ calls' = [calls EXCEPT ![c] =
                     [rec EXCEPT !.pc = "check",
                                 !.mtime = IF fs.stat = "ok" THEN Some(fs.mtime)
                                           ELSE None]]
               /\ UNCHANGED fileSem
    /\ UNCHANGED <<fs, cache>>
    /\ UNCHANGED dispatcherVars

\* CacheCheck that does not compare the modification time
CacheCheck_ignores_mtime(c) ==
    /\ c \in Loads
    /\ calls[c].pc = "check"
    /\ IF cache.net # None /\ cache.path = calls[c].real_path
       THEN Return(c, calls[c], cache.raw)
       ELSE /\ calls' = [calls EXCEPT ![c].pc = "open", ![c].locked = FALSE]
            /\ UNCHANGED fileSem
    /\ UNCHANGED <<fs, cache>>
    /\ UNCHANGED dispatcherVars

\* CacheCheck without the test that the modification time is known
CacheCheck_unknown_mtime_hits(c) ==
    /\ c \in Loads
    /\ calls[c].pc = "check"
    /\ IF /\ cache.net # None
          /\ cache.path = calls[c].real_path
          /\ cache.mtime = calls[c].mtime
       THEN Return(c, calls[c], cache.raw)
       ELSE /\ calls' = [calls EXCEPT ![c].pc = "open", ![c].locked = FALSE]
            /\ UNCHANGED fileSem
    /\ UNCHANGED <<fs, cache>>
    /\ UNCHANGED dispatcherVars

\* CacheCheck that keeps the lock when the cache does not answer
CacheCheck_keeps_lock(c) ==
    /\ c \in Loads
    /\ calls[c].pc = "check"
    /\ IF /\ cache.net # None
          /\ cache.path = calls[c].real_path
          /\ cache.mtime = calls[c].mtime
          /\ calls[c].mtime # None
       THEN Return(c, calls[c], cache.raw)
       ELSE /\ calls' = [calls EXCEPT ![c].pc = "open"]
            /\ UNCHANGED fileSem
    /\ UNCHANGED <<fs, cache>>
    /\ UNCHANGED dispatcherVars

\* lines 144-149, under _NAT64_CACHE_LOCK
CacheCheck(c) ==
    /\ c \in Loads
    /\ calls[c].pc = "check"
    /\ IF /\ cache.net # None
          /\ cache.path = calls[c].real_path
          /\ cache.mtime = calls[c].mtime
          /\ calls[c].mtime # None
       THEN Return(c, calls[c], cache.raw)
       ELSE /\ calls' = [calls EXCEPT ![c].pc = "open", ![c].locked = FALSE]
            /\ UNCHANGED fileSem
    /\ UNCHANGED <<fs, cache>>
    /\ UNCHANGED dispatcherVars

\* OpenRead that empties the cache when the file gives no prefix
OpenRead_invalidates(c) ==
    /\ c \in Loads
    /\ calls[c].pc = "open"
    /\ IF fs.open # "ok"
       THEN Return(c, calls[c], None) /\ cache' = EmptyCache
       ELSE \E found \in {scanLines(FILE_LINES[fs.content])} :
            \E rec \in {[calls[c] EXCEPT !.opens = @ + 1]} :
               IF found.kind # "prefix"
               THEN Return(c, rec, None) /\ cache' = EmptyCache
               ELSE /\ calls' = [calls EXCEPT ![c] =
                          [rec EXCEPT !.pc = "update", !.prefix = Some(found.text)]]
                    /\ UNCHANGED <<fileSem, cache>>
    /\ UNCHANGED fs
    /\ UNCHANGED dispatcherVars

\* lines 152-165 and 174-177: the file is opened and its lines scanned up to
\* the first usable prefix line
OpenRead(c) ==
    /\ c \in Loads
    /\ calls[c].pc = "open"
    /\ IF fs.open # "ok"
       THEN Return(c, calls[c], None)
       ELSE \E found \in {scanLines(FILE_LINES[fs.content])} :
            \E rec \in {[calls[c] EXCEPT !.opens = @ + 1]} :
               IF found.kind # "prefix"
               THEN Return(c, rec, None)
               ELSE /\ calls' = [calls EXCEPT ![c] =
                          [rec EXCEPT !.pc = "update", !.prefix = Some(found.text)]]
                    /\ UNCHANGED fileSem
    /\ UNCHANGED <<fs, cache>>
    /\ UNCHANGED dispatcherVars

\* lines 167-172, under _NAT64_CACHE_LOCK, then return prefix
CacheUpdate(c) ==
    /\ c \in Loads
    /\ calls[c].pc = "update"
    /\ cache' = [net |-> IPv6Network(calls[c].prefix.v), raw |-> calls[c].prefix,
                 mtime |-> calls[c].mtime, path |-> calls[c].real_path]
    /\ Return(c, [calls[c] EXCEPT !.wrote = TRUE], calls[c].prefix)
    /\ UNCHANGED fs
    /\ UNCHANGED dispatcherVars

LoadSteps ==
    \/ \E c \in Loads : WorkerStart(c)
    \/ \E c \in Loads : StatStep(c)
    \/ \E c \in Loads : CacheCheck(c)
    \/ \E c \in Loads : OpenRead(c)
    \/ \E c \in Loads : CacheUpdate(c)

NextLoad ==
    \/ Submit(MaxLoads)
    \/ \E content \in {"v96", "v100"} : FileReplace(content)
    \/ LoadSteps

SpecLoad == InitLoad /\ [][NextLoad]_vars

\* the same calls and replacements, the file being a valid one at the
\* configured path
SpecLoadValid == InitLoadValid /\ [][NextLoad]_vars

NextLoadStable == Submit(MaxConcurrent) \/ LoadSteps

SpecLoadStable == InitLoadValid /\ [][NextLoadStable]_vars

\* the prefix file with its directory closed to the process: stat and open
\* raise PermissionError
StatDenied == [PresentFile("v96", 1) EXCEPT !.stat = "denied", !.open = "denied"]

\* chmod on the file: open raises PermissionError, stat and the modification
\* time are as before
Unreadable(f) == [f EXCEPT !.open = "denied"]

FaultyFiles ==
    {PresentFile("v96", 1), MissingFile, StatDenied, Unreadable(PresentFile("v96", 1)),
     PresentFile("bad", 1), PresentFile("empty", 1)}

DamageKinds == {"missing", "stat_denied", "denied", "bad", "empty"}

InitLoadFaulty ==
    /\ InitCommon
    /\ fs \in FaultyFiles
    /\ fin = None
    /\ fout = Pending

\* the valid file is removed, loses its permissions, or is rewritten with a
\* content that holds no usable prefix (which moves its modification time)
FileDamage(kind) ==
    /\ fs = PresentFile("v96", 1)
    /\ fs' = CASE kind = "missing" -> MissingFile
               [] kind = "stat_denied" -> StatDenied
               [] kind = "denied" -> Unreadable(fs)
               [] OTHER -> PresentFile(kind, fs.mtime + 1)
    /\ UNCHANGED <<cache, fileSem, calls>>
    /\ UNCHANGED dispatcherVars

NextLoadFaulty ==
    \/ Submit(MaxLoads)
    \/ \E kind \in DamageKinds : FileDamage(kind)
    \/ LoadSteps

SpecLoadFaulty == InitLoadFaulty /\ [][NextLoadFaulty]_vars

\* another thread of the process takes a permit of the module-level
\* _THREAD_FILE_SEMAPHORE and keeps it
ForeignAcquire ==
    /\ fileSem > 0
    /\ fileSem' = fileSem - 1
    /\ UNCHANGED <<fs, cache, calls>>
    /\ UNCHANGED dispatcherVars

NextLoadStarved == Submit(MaxLoads) \/ ForeignAcquire \/ LoadSteps

\* the calls with the permits of the semaphore also taken outside the pool,
\* so that acquire(timeout=5) can time out
SpecLoadStarved == InitLoadValid /\ [][NextLoadStarved]_vars

---------------------------------------------------------------------------
(* query_upstream_async under load: the calls are counted by position,     *)
(* waiting for a permit, holding one with no association yet, or holding   *)
(* one with the association open.                                          *)

MaxWaiting == 1

loaderVars == <<fs, cache, fileSem, calls>>

restVars ==
    <<main_pc, listening, req, pc, loc, sent, escaped, assoc, trace, fin, fout>>

InitUpstream ==
    /\ InitCommon
    /\ fs = MissingFile
    /\ fin = None
    /\ fout = Pending

\* line 82: a call reaches await loop._upstream_semaphore.acquire()
PermitAwaited ==
    /\ ucount.waiting < MaxWaiting
    /\ ucount' = [ucount EXCEPT !.waiting = @ + 1]
    /\ UNCHANGED <<upSem, uq>>
    /\ UNCHANGED loaderVars
    /\ UNCHANGED restVars

\* PermitGranted for a semaphore that lets a waiter through with no permit
\* left
PermitGranted_unguarded ==
    /\ ucount.waiting > 0
    /\ upSem' = upSem - 1
    /\ ucount' = [ucount EXCEPT !.waiting = @ - 1, !.holding = @ + 1]
    /\ UNCHANGED uq
    /\ UNCHANGED loaderVars
    /\ UNCHANGED restVars

\* line 82: acquire returns, a permit being free
PermitGranted ==
    /\ ucount.waiting > 0
    /\ upSem > 0
    /\ upSem' = upSem - 1
    /\ ucount' = [ucount EXCEPT !.waiting = @ - 1, !.holding = @ + 1]
    /\ UNCHANGED uq
    /\ UNCHANGED loaderVars
    /\ UNCHANGED restVars

\* lines 84-87: create_datagram_endpoint returns the association, or raises
\* and lines 104-111 release the permit
EndpointCreated(created) ==
    /\ ucount.holding > 0
    /\ IF created
       THEN /\ ucount' = [ucount EXCEPT !.holding = @ - 1, !.open = @ + 1]
            /\ UNCHANGED upSem
       ELSE /\ ucount' = [ucount EXCEPT !.holding = @ - 1]
            /\ upSem' = upSem + 1
    /\ UNCHANGED uq
    /\ UNCHANGED loaderVars
    /\ UNCHANGED restVars

\* lines 89-108: the wait ends, the association is closed and the permit
\* released
QueryFinished ==
    /\ ucount.open > 0
    /\ ucount' = [ucount EXCEPT !.open = @ - 1]
    /\ upSem' = upSem + 1
    /\ UNCHANGED uq
    /\ UNCHANGED loaderVars
    /\ UNCHANGED restVars

NextUpstreamLoad ==
    \/ PermitAwaited
    \/ PermitGranted
    \/ \E created \in BOOLEAN : EndpointCreated(created)
    \/ QueryFinished

SpecUpstreamLoad == InitUpstream /\ [][NextUpstreamLoad]_vars

---------------------------------------------------------------------------
(* query_upstream_async call by call: the permit, the association, the     *)
(* event that ends the wait, the close, the release and the value returned.*)

MaxQueries == 2

Queries == 1..Len(uq)

\* the reply datagrams and failures that end a call's wait
QueryEvents ==
    {[kind |-> "timeout"], [kind |-> "error"], [kind |-> "lost"],
     [kind |-> "datagram", data |-> [wire |-> "malformed"]],
     [kind |-> "datagram", data |-> [wire |-> "reply", rr |-> <<A_REC_1>>]]}

\* line 75: a call begins; its counters record the associations it created,
\* the closes of an open association and the releases it made
QueryStart ==
    /\ Len(uq) < MaxQueries
    /\ uq' = Append(uq, [pc |-> "acquire", ev |-> None, permit |-> FALSE,
                         created |-> 0, closed |-> 0, released |-> 0,
                         ret |-> Pending])
    /\ UNCHANGED <<upSem, assoc, ucount>>
    /\ UNCHANGED loaderVars
    /\ UNCHANGED <<main_pc, listening, req, pc, loc, sent, escaped, trace, fin, fout>>

\* line 82
QueryAcquire(q) ==
    /\ q \in Queries
    /\ uq[q].pc = "acquire"
    /\ upSem > 0
    /\ upSem' = upSem - 1
    /\ uq' = [uq EXCEPT ![q].pc = "create", ![q].permit = TRUE]
    /\ UNCHANGED <<assoc, ucount>>
    /\ UNCHANGED loaderVars
    /\ UNCHANGED <<main_pc, listening, req, pc, loc, sent, escaped, trace, fin, fout>>

\* lines 84-87: the association is created and the question sent (line 49),
\* or create_datagram_endpoint raises OSError
QueryCreate(q, created) ==
    /\ q \in Queries
    /\ uq[q].pc = "create"
    /\ IF created
       THEN /\ assoc' = assoc \cup {q}
            /\ uq' = [uq EXCEPT ![q].pc = "wait", ![q].created = @ + 1]
       ELSE /\ assoc' = assoc
            /\ uq' = [uq EXCEPT ![q].pc = "release", ![q].ev = [kind |-> "create_failed"]]
    /\ UNCHANGED <<upSem, ucount>>
    /\ UNCHANGED loaderVars
    /\ UNCHANGED <<main_pc, listening, req, pc, loc, sent, escaped, trace, fin, fout>>

\* lines 52-67 and 91: the wait ends.  datagram_received sets the result and
\* closes the transport; the loop has closed a lost connection; after
\* error_received and after the timeout the association is still open.
QueryEvent(q, ev) ==
    /\ q \in Queries
    /\ uq[q].pc = "wait"
    /\ assoc' = IF ev.kind \in {"datagram", "lost"} THEN assoc \ {q} ELSE assoc
    /\ uq' = [uq EXCEPT ![q].pc = "close", ![q].ev = ev,
                        ![q].closed = IF ev.kind \in {"datagram", "lost"} THEN @ + 1 ELSE @]
    /\ UNCHANGED <<upSem, ucount>>
    /\ UNCHANGED loaderVars
    /\ UNCHANGED <<main_pc, listening, req, pc, loc, sent, escaped, trace, fin, fout>>

\* QueryClose without the finally clause: only the timeout handler closes
QueryClose_timeout_only(q) ==
    /\ q \in Queries
    /\ uq[q].pc = "close"
    /\ assoc' = IF uq[q].ev.kind = "timeout" THEN assoc \ {q} ELSE assoc
    /\ uq' = [uq EXCEPT ![q].pc = "release",
                        ![q].closed = IF q \in assoc /\ uq[q].ev.kind = "timeout"
                                      THEN @ + 1 ELSE @]
    /\ UNCHANGED <<upSem, ucount>>
    /\ UNCHANGED loaderVars
    /\ UNCHANGED <<main_pc, listening, req, pc, loc, sent, escaped, trace, fin, fout>>

\* lines 93-103: transport.close() in the timeout handler and in the finally
\* clause; closing a closed transport does nothing
QueryClose(q) ==
    /\ q \in Queries
    /\ uq[q].pc = "close"
    /\ assoc' = assoc \ {q}
    /\ uq' = [uq EXCEPT ![q].pc = "release",
                        ![q].closed = IF q \in assoc THEN @ + 1 ELSE @]
    /\ UNCHANGED <<upSem, ucount>>
    /\ UNCHANGED loaderVars
    /\ UNCHANGED <<main_pc, listening, req, pc, loc, sent, escaped, trace, fin, fout>>

\* QueryRelease without the outer except clause: only the timeout is turned
\* into None
QueryRelease_timeout_only(q) ==
    /\ q \in Queries
    /\ uq[q].pc = "release"
    /\ upSem' = upSem + 1
    /\ uq' = [uq EXCEPT ![q].pc = "returned", ![q].released = @ + 1,
                        ![q].ret = IF uq[q].ev.kind = "datagram" THEN Some(uq[q].ev.data)
                                   ELSE IF uq[q].ev.kind = "timeout" THEN None
                                   ELSE Raised("OSError")]
    /\ UNCHANGED <<assoc, ucount>>
    /\ UNCHANGED loaderVars
    /\ UNCHANGED <<main_pc, listening, req, pc, loc, sent, escaped, trace, fin, fout>>

\* lines 104-111: the permit is released; the call returns the datagram, or
\* None after the timeout and after any exception
QueryRelease(q) ==
    /\ q \in Queries
    /\ uq[q].pc = "release"
    /\ upSem' = upSem + 1
    /\ uq' = [uq EXCEPT ![q].pc = "returned", ![q].released = @ + 1,
                        ![q].ret = IF uq[q].ev.kind = "datagram" THEN Some(uq[q].ev.data)
                                   ELSE None]
    /\ UNCHANGED <<assoc, ucount>>
    /\ UNCHANGED loaderVars
    /\ UNCHANGED <<main_pc, listening, req, pc, loc, sent, escaped, trace, fin, fout>>

NextUpstream ==
    \/ QueryStart
    \/ \E q \in Queries : QueryAcquire(q)
    \/ \E q \in Queries, created \in BOOLEAN : QueryCreate(q, created)
    \/ \E q \in Queries, ev \in QueryEvents : QueryEvent(q, ev)
    \/ \E q \in Queries : QueryClose(q)
    \/ \E q \in Queries : QueryRelease(q)

SpecUpstream == InitUpstream /\ [][NextUpstream]_vars

---------------------------------------------------------------------------
(* resolve_upstream_dns64 on its own: the value query_upstream_async       *)
(* returned and the network it is called with.                             *)

MaxAnswers == 2

A_REC_MAX == [rtype |-> "A", rdata |-> <<"2", "5", "5", ".", "2", "5", "5", ".", "2", "5", "5", ".", "2", "5", "5">>]

AnswerRecords == {A_REC_1, A_REC_2, A_REC_MAX, CNAME_REC}

\* 64:ff9b:1::/64, 2001:db8::/32, 64:ff9b:1::/97 and 64:ff9b:1::/128 as
\* IPv6Network values
NET_64 == [NET_96 EXCEPT !.prefixlen = 64]

NET_32 == [NET_100 EXCEPT !.prefixlen = 32]

NET_97 == [NET_96 EXCEPT !.prefixlen = 97]

NET_128 == [NET_96 EXCEPT !.prefixlen = 128]

Networks == {NET_32, NET_64, NET_96, NET_WK, NET_97, NET_100, NET_128}

RECURSIVE SeqsUpTo(_, _)
SeqsUpTo(S, n) ==
    IF n = 0 THEN {<<>>}
    ELSE LET shorter == SeqsUpTo(S, n - 1)
         IN shorter \cup {Append(q, x) : q \in shorter, x \in S}

Responses ==
    {None, [wire |-> "malformed"]}
      \cup {[wire |-> "reply", rr |-> rr] : rr \in SeqsUpTo(AnswerRecords, MaxAnswers)}

InitSynth ==
    /\ InitCommon
    /\ fs = MissingFile
    /\ fin \in [response_data : Responses, nat64_net : Networks]
    /\ fout = Pending

\* lines 283-305, after query_upstream_async returned
SynthCall ==
    /\ fout = Pending
    /\ fout' = [kind |-> "list", ips |-> synthesize(fin.response_data, fin.nat64_net)]
    /\ UNCHANGED <<main_pc, listening, req, pc, loc, sent, escaped, fs, cache,
                   fileSem, upSem, assoc, trace, fin, calls, uq, ucount>>

NextSynth == SynthCall

SpecSynth == InitSynth /\ [][NextSynth]_vars

---------------------------------------------------------------------------
(* The server under load: besides the handlers followed one by one, other  *)
(* handlers of the same process hold upstream permits and keep file-read   *)
(* workers busy.  They are counted, not followed.                          *)

\* the datagrams of this specification: a custom name, a name that needs the
\* upstream, and a query of another type
BusyDatagrams ==
    {Query("client1", 1, Q_CUSTOM, "AAAA"), Query("client2", 2, Q_PLAIN, "AAAA"),
     Query("client2", 4, Q_PLAIN, "A")}

\* a datagram whose handler never awaits: lines 341-356 and 387-390
Quick(d) ==
    /\ d.wire = "query"
    /\ \/ d.q.qtype # "AAAA"
       \/ resolve(d.q.qname).kind = "addr"

QuickDatagrams == {d \in BusyDatagrams : Quick(d)}

\* permits of the upstream semaphore held by the handlers followed here
HeldByTasks == Cardinality({t \in Tasks : pc[t] \in {"await_endpoint", "await_reply"}})

\* permits held by the other handlers
HeldByOthers == UPSTREAM_PERMITS - upSem - HeldByTasks

\* read bodies of the other handlers running in the executor
BusyWorkers == FILE_PERMITS - fileSem

InitBusy ==
    /\ InitCommon
    /\ fs = PresentFile("v96", 1)
    /\ fin = None
    /\ fout = Pending

\* line 82 in another handler
OthersAcquire ==
    /\ listening
    /\ upSem > 0
    /\ upSem' = upSem - 1
    /\ UNCHANGED <<main_pc, listening, req, pc, loc, sent, escaped, fs, cache,
                   fileSem, assoc, trace, fin, fout, calls, uq, ucount>>

\* lines 104-108 in another handler
OthersRelease ==
    /\ HeldByOthers > 0
    /\ upSem' = upSem + 1
    /\ UNCHANGED <<main_pc, listening, req, pc, loc, sent, escaped, fs, cache,
                   fileSem, assoc, trace, fin, fout, calls, uq, ucount>>

\* lines 126 and 185: read bodies of other handlers take every free worker
\* of the executor, one permit each
OthersReadStart ==
    /\ listening
    /\ BusyWorkers = 0
    /\ fileSem' = fileSem - FILE_WORKERS
    /\ UNCHANGED <<main_pc, listening, req, pc, loc, sent, escaped, fs, cache,
                   upSem, assoc, trace, fin, fout, calls, uq, ucount>>

\* lines 181-183: the read bodies of the other handlers end
OthersReadEnd ==
    /\ BusyWorkers > 0
    /\ fileSem' = fileSem + BusyWorkers
    /\ UNCHANGED <<main_pc, listening, req, pc, loc, sent, escaped, fs, cache,
                   upSem, assoc, trace, fin, fout, calls, uq, ucount>>

\* line 185: the read body of a followed handler needs a free worker
LoadPrefixWhenFree(t) ==
    /\ BusyWorkers < FILE_WORKERS
    /\ LoadPrefix(t)

NextBusy ==
    \/ MainInitialCheck
    \/ \E bound \in BOOLEAN : MainBind(bound)
    \/ \E d \in BusyDatagrams : datagram_received(d)
    \/ \E t \in Tasks : HandleStart(t)
    \/ \E t \in Tasks : LoadPrefixWhenFree(t)
    \/ \E t \in Tasks : UpstreamAcquire(t)
    \/ \E t \in Tasks, created \in BOOLEAN : UpstreamConnect(t, created)
    \/ \E t \in Tasks, ev \in UpstreamEvents : UpstreamOutcome(t, ev)
    \/ OthersAcquire
    \/ OthersRelease
    \/ OthersReadStart
    \/ OthersReadEnd

SpecBusy == InitBusy /\ [][NextBusy]_vars

---------------------------------------------------------------------------
(* The prefix loader with _NAT64_CACHE_LOCK followed: taking the lock is a *)
(* step of its own, and the compare and the update run with it held.       *)

LockHolders == {c \in Loads : calls[c].locked}

\* lines 144 and 167: `with _NAT64_CACHE_LOCK:` is entered when no thread
\* holds the lock
LockAcquire(c) ==
    /\ c \in Loads
    /\ calls[c].pc \in {"check", "update"}
    /\ LockHolders = {}
    /\ calls' = [calls EXCEPT ![c].locked = TRUE]
    /\ UNCHANGED <<fs, cache, fileSem>>
    /\ UNCHANGED dispatcherVars

\* lines 145-149 with the lock held; leaving the block releases it
LockedCheck(c) ==
    /\ c \in LockHolders
    /\ CacheCheck(c)

\* lines 168-172 with the lock held; leaving the block releases it
LockedUpdate(c) ==
    /\ c \in LockHolders
    /\ CacheUpdate(c)

NextLock ==
    \/ Submit(MaxLoads)
    \/ \E c \in Loads : WorkerStart(c)
    \/ \E c \in Loads : StatStep(c)
    \/ \E c \in Loads : LockAcquire(c)
    \/ \E c \in Loads : LockedCheck(c)
    \/ \E c \in Loads : OpenRead(c)
    \/ \E c \in Loads : LockedUpdate(c)

SpecLock == InitLoadValid /\ [][NextLock]_vars

---------------------------------------------------------------------------
(* Two calls of resolve on two spellings of one key.                       *)

Spelled(k, l) == [key |-> k, layout |-> l, qname |-> QName(k, l)]

LayoutPairs ==
    {[kind |-> "pair", a |-> Spelled(k, "tc.s"), b |-> Spelled(k, l)] :
        k \in Keys, l \in {"s.tc", "s.c"}}
      \cup {[kind |-> "pair", a |-> Spelled(k, "tc"), b |-> Spelled(k, l)] :
              k \in {x \in Keys : x.site_id = 0}, l \in {"c", "tc.s"}}

InitResolveLayouts ==
    /\ InitCommon
    /\ fs = MissingFile
    /\ fin \in LayoutPairs
    /\ fout = [kind |-> "pair", a |-> Pending, b |-> Pending]

SpecResolveLayouts == InitResolveLayouts /\ [][NextResolvePair]_vars

---------------------------------------------------------------------------
(* One UpstreamClientProtocol object, its future and the wait_for of       *)
(* query_upstream_async: the loop may deliver any callback at any time     *)
(* while the object exists.                                                *)

MaxEvents == 4

Cancelled == [kind |-> "cancelled"]

DATA_1 == [wire |-> "reply", rr |-> <<A_REC_1>>]

DATA_2 == [wire |-> "reply", rr |-> <<A_REC_2>>]

\* lines 75 and 84-87: the future, the protocol object and its transport
\* exist.  sets counts the completions of the future, first is the first
\* datagram handed to the object, late counts the callbacks that found the
\* future done, fault is an exception raised inside a callback.
ProtocolStart ==
    /\ uq = <<>>
    /\ uq' = <<[pc |-> "wait", future |-> Pending, sets |-> 0, first |-> None,
                open |-> TRUE, lost |-> FALSE, events |-> 0, late |-> 0,
                fault |-> "none", ret |-> Pending]>>
    /\ UNCHANGED <<upSem, ucount>>
    /\ UNCHANGED loaderVars
    /\ UNCHANGED restVars

\* a callback is delivered to the object
Delivered(rec) ==
    [rec EXCEPT !.events = @ + 1,
                !.late = IF rec.future # Pending THEN @ + 1 ELSE @]

\* future.set_result / future.set_exception: InvalidStateError on a future
\* that is done
Complete(rec, outcome) ==
    IF rec.future # Pending THEN [rec EXCEPT !.fault = "InvalidStateError"]
    ELSE [rec EXCEPT !.future = outcome, !.sets = @ + 1]

\* protocol_datagram_received that sets the result without looking at the
\* future
protocol_datagram_received_unguarded(q, data) ==
    /\ q \in Queries
    /\ uq[q].events < MaxEvents
    /\ \E rec \in {[Delivered(uq[q]) EXCEPT
                       !.first = IF @ = None THEN Some(data) ELSE @]} :
          uq' = [uq EXCEPT ![q] = [Complete(rec, Some(data)) EXCEPT !.open = FALSE]]
    /\ UNCHANGED <<upSem, ucount>>
    /\ UNCHANGED loaderVars
    /\ UNCHANGED restVars

\* lines 52-56: UpstreamClientProtocol.datagram_received
protocol_datagram_received(q, data) ==
    /\ q \in Queries
    /\ uq[q].events < MaxEvents
    /\ \E rec \in {[Delivered(uq[q]) EXCEPT
                       !.first = IF @ = None THEN Some(data) ELSE @]} :
          uq' = [uq EXCEPT ![q] =
                    [(IF rec.future = Pending THEN Complete(rec, Some(data)) ELSE rec)
                        EXCEPT !.open = FALSE]]
    /\ UNCHANGED <<upSem, ucount>>
    /\ UNCHANGED loaderVars
    /\ UNCHANGED restVars

\* lines 58-60
error_received(q) ==
    /\ q \in Queries
    /\ uq[q].events < MaxEvents
    /\ \E rec \in {Delivered(uq[q])} :
          uq' = [uq EXCEPT ![q] =
                    IF rec.future = Pending THEN Complete(rec, Raised("OSError"))
                    ELSE rec]
    /\ UNCHANGED <<upSem, ucount>>
    /\ UNCHANGED loaderVars
    /\ UNCHANGED restVars

\* lines 62-67: called once, with the error that broke the association or
\* with None after a close
connection_lost(q, exc) ==
    /\ q \in Queries
    /\ uq[q].events < MaxEvents
    /\ ~uq[q].lost
    /\ exc = None => ~uq[q].open
    /\ \E rec \in {[Delivered(uq[q]) EXCEPT !.lost = TRUE, !.open = FALSE]} :
          uq' = [uq EXCEPT ![q] =
                    IF rec.future = Pending
                    THEN Complete(rec, IF exc = None THEN Raised("ConnectionError")
                                       ELSE Raised(exc.v))
                    ELSE rec]
    /\ UNCHANGED <<upSem, ucount>>
    /\ UNCHANGED loaderVars
    /\ UNCHANGED restVars

\* line 91: the 2.0 s of wait_for pass with the future pending.  Depending
\* on the library version the future is cancelled at once, or when the
\* coroutine resumes and still finds it pending.
WaitTimeout(q, cancels) ==
    /\ q \in Queries
    /\ uq[q].pc = "wait"
    /\ uq[q].future = Pending
    /\ uq' = [uq EXCEPT ![q].pc = "timed_out",
                        ![q].future = IF cancels THEN Cancelled ELSE @]
    /\ UNCHANGED <<upSem, ucount>>
    /\ UNCHANGED loaderVars
    /\ UNCHANGED restVars

\* lines 91-111: the coroutine resumes: the datagram is returned, the
\* timeout and any exception give None, the transport is closed
WaitResume(q) ==
    /\ q \in Queries
    /\ \/ uq[q].pc = "wait" /\ uq[q].future # Pending
       \/ uq[q].pc = "timed_out"
    /\ \E fut \in {IF uq[q].future = Pending THEN Cancelled ELSE uq[q].future} :
          uq' = [uq EXCEPT ![q].pc = "returned",
                           ![q].future = fut,
                           ![q].open = FALSE,
                           ![q].ret = IF fut.kind = "some" THEN fut ELSE None]
    /\ UNCHANGED <<upSem, ucount>>
    /\ UNCHANGED loaderVars
    /\ UNCHANGED restVars

NextProtocol ==
    \/ ProtocolStart
    \/ \E q \in Queries, data \in {DATA_1, DATA_2} : protocol_datagram_received(q, data)
    \/ \E q \in Queries : error_received(q)
    \/ \E q \in Queries, exc \in {None, Some("OSError")} : connection_lost(q, exc)
    \/ \E q \in Queries, cancels \in BOOLEAN : WaitTimeout(q, cancels)
    \/ \E q \in Queries : WaitResume(q)

SpecProtocol == InitUpstream /\ [][NextProtocol]_vars

---------------------------------------------------------------------------
(* The prefix loader where stat fails and open succeeds (open is patched,  *)
(* or the file appears between the two calls).                             *)

NoStatFile == [PresentFile("v96", 1) EXCEPT !.stat = "missing"]

InitLoadNoStat ==
    /\ InitCommon
    /\ fs = NoStatFile
    /\ fin = None
    /\ fout = Pending

SpecLoadNoStat == InitLoadNoStat /\ [][NextLoadStable]_vars

---------------------------------------------------------------------------
(* The prefix loader on a file that turns unusable in any of the ways the  *)
(* body gives up on, the symlink out of the directory included.            *)

\* the valid file is replaced by a symlink out of the configured directory
FileRelink ==
    /\ fs = PresentFile("v96", 1)
    /\ fs' = SymlinkTo(OUTSIDE_PATH)
    /\ UNCHANGED <<cache, fileSem, calls>>
    /\ UNCHANGED dispatcherVars

NextLoadUnavailable == NextLoadFaulty \/ FileRelink

SpecLoadUnavailable == InitLoadFaulty /\ [][NextLoadUnavailable]_vars

---------------------------------------------------------------------------
(* The dispatcher under a fair scheduler: the event loop runs every task   *)
(* that can run, the executor ends every read, and the 2.0 s deadline of   *)
(* wait_for ends every wait for the upstream.                              *)

Fairness ==
    /\ WF_vars(\E t \in Tasks : HandleStart(t))
    /\ WF_vars(\E t \in Tasks : LoadPrefix(t))
    /\ WF_vars(\E t \in Tasks : UpstreamAcquire(t))
    /\ WF_vars(\E t \in Tasks, created \in BOOLEAN : UpstreamConnect(t, created))
    /\ WF_vars(\E t \in Tasks, ev \in UpstreamEvents : UpstreamOutcome(t, ev))

SpecFair == Spec /\ Fairness

\* C11: two names written from different in-range keys, when both resolve,
\* resolve to different addresses.
C11_Injective ==
    (fout.a.kind = "addr" /\ fout.b.kind = "addr" /\ fin.a.key # fin.b.key) =>
        fout.a.addr # fout.b.addr

C11_Witness ==
    /\ fin.a.key = [ipv4 |-> <<192, 0, 2, 1>>, customer_id |-> 1, site_id |-> 0]
    /\ fin.b.key = [ipv4 |-> <<192, 0, 2, 1>>, customer_id |-> 0, site_id |-> 1]
    /\ fin.b.layout = "s.c"
    /\ fout.a.kind = "addr"
    /\ fout.b.kind = "addr"
    /\ fout.a.addr[3] = 256
    /\ fout.b.addr[3] = 1

\* C12: resolve returns no-match when the customer id is outside 0..0xFFFFFF
\* (0x1000000, -1), the site id is outside 0..0xFF (0x100, -1) or the first
\* label is not an IPv4 literal, and accepts customer id 0xFFFFFF with site id
\* 0xFF.
C12_RangeRejection ==
    fout # Pending =>
        /\ (fin.key # None /\ ~InRange(fin.key)) => fout = NoMatch
        /\ fin.qname \in {Q_NEG, Q_NEG_SITE} => fout = NoMatch
        /\ fin.qname = Q_BAD_IPV4 => fout = NoMatch
        /\ (fin.key # None /\ fin.key.customer_id = MAX_CUSTOMER
              /\ fin.key.site_id = MAX_SITE) => fout.kind = "addr"

\* C13: every call of resolve returns an address or no-match; none raises.
C13_NeverRaises == fout # Pending => fout.kind \in {"addr", "none"}

\* the last label of the name resolve looks at
FinalLabel(qname_str) ==
    LET labels == split(rstrip(lower(qname_str), "."), ".")
    IN labels[Len(labels)]

\* C15: a name whose last label is not exactly nat64 gets no-match.
C15_SuffixLabel ==
    (fout # Pending /\ FinalLabel(fin.qname) # NAT64_SUFFIX) => fout = NoMatch

\* what the handling of task t shows of the value resolve returned to it
ResolveSeen(t) ==
    IF trace[t].fault # "none" THEN Raised(trace[t].fault)
    ELSE IF pc[t] = "done" /\ trace[t].load = 0
    THEN [kind |-> "addr", addr |-> Reply(t).rr[1].rdata]
    ELSE NoMatch

\* C14: two requests with the same name see the same value of resolve,
\* whatever the prefix file, the cache and the upstream did in between, and
\* the value is built on the fixed base.
C14_SameNameSameResult ==
    \A t, u \in Tasks :
        (IsAAAA(t) /\ IsAAAA(u) /\ req[t].q.qname = req[u].q.qname
           /\ trace[t].resolve = 1 /\ trace[u].resolve = 1) =>
            /\ ResolveSeen(t) = ResolveSeen(u)
            /\ ResolveSeen(t).kind = "addr" =>
                  \A i \in 5..NLIMBS : ResolveSeen(t).addr[i] = BASE_INT.limbs[i]

C14_Witness ==
    \E t, u \in Tasks :
        /\ t # u
        /\ IsAAAA(t) /\ IsAAAA(u)
        /\ req[t].q.qname = Q_CUSTOM /\ req[u].q.qname = Q_CUSTOM
        /\ trace[t].resolve = 1 /\ trace[u].resolve = 1
        /\ ResolveSeen(t) = [kind |-> "addr", addr |-> ADDR_CUSTOM]
        /\ ResolveSeen(u) = [kind |-> "addr", addr |-> ADDR_CUSTOM]
        /\ cache.net = NET_100
        /\ fs = MissingFile

Done(c) == calls[c].pc = "returned"

\* the path is inside the directory of the configured path
Inside(path) == startswith(path, ALLOWED_DIR \o <<"/">>)

\* C16: a call that finds the real path outside the configured directory, a
\* sibling directory with the same leading characters included, never opens
\* the file, never writes the cache and returns None.
C16_SymlinkRejected ==
    \A c \in Loads :
        (calls[c].real_path # Unset /\ ~Inside(calls[c].real_path.v)) =>
            /\ calls[c].opens = 0
            /\ ~calls[c].wrote
            /\ Done(c) => calls[c].result = None

\* C17: a call that starts after a load of the current file version has
\* finished and cached it opens the file zero times and returns a prefix, as
\* long as the file has not changed since the call started.
C17_CachedNoReopen ==
    \A c \in Loads :
        (calls[c].warm /\ fs.mtime = calls[c].ver0) =>
            /\ calls[c].opens = 0
            /\ Done(c) => calls[c].result # None

\* the network each valid content stands for
ExpectedNet(content) == IF content = "v96" THEN NET_96 ELSE NET_100

\* C18: a call that starts after the file was replaced, and returns before it
\* is replaced again, returns the network of the new content, whatever the
\* calls that started before the replacement wrote to the cache.
C18_NewPrefixAfterChange ==
    \A c \in Loads :
        (Done(c) /\ calls[c].ver0 > 1 /\ fs.mtime = calls[c].ver0) =>
            calls[c].result = ExpectedNet(fs.content)

C18_Witness ==
    \E c, d \in Loads :
        /\ Done(d) /\ calls[d].ver0 = 1 /\ calls[d].wrote
        /\ calls[d].mtime = Some(1) /\ calls[d].result = NET_100
        /\ Done(c) /\ calls[c].ver0 = 2 /\ calls[c].result = NET_100
        /\ fs.mtime = 2
        /\ cache.mtime = Some(1)

\* C19: with a valid file that never changes every call returns its network,
\* also the calls that had to wait for a free worker.
C19_ConcurrentSame ==
    \A c \in Loads : Done(c) => calls[c].result = NET_96

C19_Witness ==
    /\ Len(calls) > FILE_WORKERS
    /\ \A c \in Loads : Done(c) /\ calls[c].result = NET_96
    /\ \E c \in Loads : calls[c].waited
    /\ \E c \in Loads : calls[c].opens = 0

\* C20: two calls that saw the same real path and the same modification time
\* return the same prefix.
C20_SameObservationSamePrefix ==
    \A c, d \in Loads :
        (Done(c) /\ Done(d) /\ calls[c].mtime.kind = "some"
           /\ calls[c].real_path = calls[d].real_path
           /\ calls[c].mtime = calls[d].mtime) =>
            calls[c].result = calls[d].result

\* C21: a call writes the cache only when its real path or its modification
\* time differs from what the cache holds at the moment of the write.
C21_WriteOnlyOnChange ==
    [][\A c \in Loads :
          (calls[c].pc = "update" /\ calls'[c].pc = "returned") =>
              ~(cache.path = calls[c].real_path /\ cache.mtime = calls[c].mtime)]_vars

\* the file gives no prefix to a call that reads it
Unusable(f) ==
    f.stat # "ok" \/ f.open # "ok" \/ scanLines(FILE_LINES[f.content]).kind # "prefix"

C24_PermitBound ==
    /\ upSem >= 0
    /\ ucount.holding + ucount.open = UPSTREAM_PERMITS - upSem
    /\ ucount.holding + ucount.open <= 64
    /\ ucount.open <= 64

C24_Witness ==
    /\ upSem = 0
    /\ ucount.open = 64
    /\ ucount.waiting = 1

Returned(q) == uq[q].pc = "returned"

\* C25: a call creates at most one association; while its association is open
\* it holds its permit; when it has returned its association is closed and its
\* permit released once; the free permits are 64 less the permits held, so
\* all 64 are free when every call has returned.
C25_CloseThenRelease ==
    /\ \A q \in Queries :
          /\ uq[q].created <= 1
          /\ uq[q].released <= 1
          /\ uq[q].closed <= uq[q].created
          /\ q \in assoc => (uq[q].permit /\ uq[q].released = 0)
          /\ Returned(q) =>
                /\ q \notin assoc
                /\ uq[q].closed = uq[q].created
                /\ uq[q].permit => uq[q].released = 1
    /\ upSem = 64 - Cardinality({q \in Queries : uq[q].permit /\ uq[q].released = 0})
    /\ (\A q \in Queries : Returned(q)) => upSem = 64

C25_Witness ==
    \E q, r \in Queries :
        /\ Returned(q) /\ uq[q].ev.kind = "error"
        /\ uq[q].created = 1 /\ uq[q].closed = 1 /\ uq[q].released = 1
        /\ Returned(r) /\ uq[r].ev.kind = "create_failed"
        /\ uq[r].created = 0 /\ uq[r].released = 1
        /\ upSem = 64
        /\ assoc = {}

\* C26: a call whose wait ends with the timeout, a transport error or a lost
\* connection, or whose association cannot be created, returns None; no call
\* raises.
C26_FailureGivesNone ==
    \A q \in Queries :
        Returned(q) =>
            /\ uq[q].ret.kind # "raise"
            /\ uq[q].ev.kind \in {"timeout", "error", "lost", "create_failed"} =>
                  uq[q].ret = None

C26_Witness ==
    \E q, r \in Queries :
        /\ Returned(q) /\ uq[q].ev.kind = "timeout" /\ uq[q].ret = None
        /\ Returned(r) /\ uq[r].ev.kind = "lost" /\ uq[r].ret = None

\* C27: with a prefix longer than 96 bits resolve_upstream_dns64 returns the
\* empty list, whatever the reply holds.
C27_LongPrefixEmpty ==
    (fout # Pending /\ fin.nat64_net.prefixlen > 96) => fout.ips = <<>>

C27_Witness ==
    /\ fout # Pending
    /\ fin.nat64_net = NET_97
    /\ fin.response_data = [wire |-> "reply", rr |-> <<A_REC_1, A_REC_2>>]
    /\ fout.ips = <<>>

\* the A records of a reply, in its order
RECURSIVE ARecords(_)
ARecords(rrs) ==
    IF rrs = <<>> THEN <<>>
    ELSE IF Head(rrs).rtype = "A" THEN <<Head(rrs)>> \o ARecords(Tail(rrs))
    ELSE ARecords(Tail(rrs))

\* the 32-bit value of the address of each A record, as two 16-bit halves
LowBits(rec) ==
    IF rec = A_REC_1 THEN <<513, 49152>>
    ELSE IF rec = A_REC_2 THEN <<25607, 50739>>
    ELSE <<65535, 65535>>

\* C28: with a prefix of at most 96 bits and a reply, the result has one
\* address per A record, in the reply's order; each has the record's IPv4
\* value in its low 32 bits and the network address in its upper 96 bits.
C28_OnePerARecord ==
    (fout # Pending /\ fin.nat64_net.prefixlen <= 96
       /\ fin.response_data # None /\ fin.response_data.wire = "reply") =>
        LET as == ARecords(fin.response_data.rr)
        IN /\ Len(fout.ips) = Len(as)
           /\ \A i \in 1..Len(as) :
                 /\ fout.ips[i][1] = LowBits(as[i])[1]
                 /\ fout.ips[i][2] = LowBits(as[i])[2]
                 /\ \A j \in 3..NLIMBS : fout.ips[i][j] = fin.nat64_net.addr[j]

C28_Witness ==
    /\ fout # Pending
    /\ fin.nat64_net = NET_64
    /\ fin.response_data = [wire |-> "reply", rr |-> <<CNAME_REC, A_REC_2>>]
    /\ fout.ips = << <<25607, 50739, 0, 0, 0, 1, 65435, 100>> >>

\* C29: once query_upstream_async has returned None to a task (timeout,
\* transport error, lost connection, or no endpoint), the task is finished
\* with an empty list of synthesized addresses, and no task ever sends more
\* than one question upstream.
C29_NoneEmptyNoRetry ==
    \A t \in Tasks :
        /\ trace[t].query <= 1
        /\ trace[t].permit <= 1
        /\ trace[t].answer = "none" =>
              /\ pc[t] = "done"
              /\ loc[t].synthesized_ips = <<>>
              /\ Len(sent[t]) = 1
              /\ sent[t][1].reply.rr = <<>>

C29_Witness ==
    \E t \in Tasks :
        /\ trace[t].answer = "none"
        /\ trace[t].query = 1
        /\ loc[t].nat64_net # None
        /\ loc[t].synthesized_ips = <<>>
        /\ pc[t] = "done"

\* the steps one handler can take, as pairs of positions: from the arrival
\* to the end of resolve, to the prefix, to the upstream query, to the end
PcSteps ==
    {<<"start", "done">>, <<"start", "load_prefix">>,
     <<"load_prefix", "done">>, <<"load_prefix", "await_permit">>,
     <<"await_permit", "await_endpoint">>,
     <<"await_endpoint", "done">>, <<"await_endpoint", "await_reply">>,
     <<"await_reply", "done">>}

\* C30: every step of a datagram's handling is one of the transitions
\* arrival -> parse and resolve -> (custom answer | prefix, then upstream)
\* -> reply.  resolve is called before anything else and for AAAA only, the
\* prefix is loaded only after resolve returned no address, a permit is
\* taken and a question sent only with a prefix in hand, the reply is the
\* last thing a handler does, and a finished handler does nothing more.
C30_HandlingOrder ==
    [][\A t \in Tasks :
          /\ pc'[t] # pc[t] => <<pc[t], pc'[t]>> \in PcSteps
          /\ trace'[t].resolve # trace[t].resolve =>
                /\ pc[t] = "start" /\ trace[t].resolve = 0
                /\ req[t].q.qtype = "AAAA"
          /\ trace'[t].load # trace[t].load =>
                /\ trace[t].load = 0 /\ trace[t].resolve = 1
                /\ resolve(req[t].q.qname).kind \notin {"addr", "raise"}
                /\ sent[t] = <<>>
          /\ trace'[t].permit # trace[t].permit =>
                /\ trace[t].permit = 0 /\ trace[t].load = 1
                /\ loc[t].nat64_net # None
                /\ sent[t] = <<>>
          /\ trace'[t].query # trace[t].query =>
                /\ trace[t].query = 0 /\ trace[t].permit = 1
                /\ loc[t].nat64_net # None
                /\ sent[t] = <<>>
          /\ sent'[t] # sent[t] =>
                /\ sent[t] = <<>> /\ Len(sent'[t]) = 1
                /\ pc[t] # "done" /\ pc'[t] = "done"
                /\ t \notin assoc'
          /\ pc[t] = "done" =>
                /\ pc'[t] = "done"
                /\ sent'[t] = sent[t]
                /\ loc'[t] = loc[t]
                /\ trace'[t] = trace[t]
                /\ t \notin assoc']_vars

C30_Witness ==
    \E t \in Tasks :
        /\ pc[t] = "done"
        /\ trace[t].resolve = 1 /\ trace[t].load = 1
        /\ req[t].q.qtype = "AAAA"
        /\ trace[t].permit = 1 /\ trace[t].query = 1
        /\ trace[t].answer = "data"
        /\ Len(sent[t]) = 1
        /\ Len(sent[t][1].reply.rr) = 2

\* C31: a datagram whose handling needs no suspension (a custom name, or a
\* query that is not AAAA) never waits for anything: in every state its
\* handler either can run at once, whatever the earlier handlers wait for,
\* however many upstream permits are held and workers busy, or it has
\* already sent its reply, without a prefix load or an upstream permit.
C31_QuickNeverWaits ==
    \A t \in Tasks :
        req[t] \in QuickDatagrams =>
            \/ pc[t] = "start" /\ ENABLED HandleStart(t)
            \/ /\ pc[t] = "done"
               /\ Len(sent[t]) = 1
               /\ trace[t].load = 0
               /\ trace[t].permit = 0

\* a later datagram has its reply while an earlier one waits for the
\* upstream, no permit is free and every worker is busy
C31_Witness ==
    \E t, u \in Tasks :
        /\ t < u
        /\ pc[t] = "await_reply" /\ sent[t] = <<>>
        /\ req[u] \in QuickDatagrams /\ Len(sent[u]) = 1
        /\ upSem = 0
        /\ BusyWorkers = FILE_WORKERS

\* C32: a worker that holds the cache lock is at the compare or at the
\* update of the cached fields, never at realpath/stat nor at the open and
\* read of the file, and no two workers hold the lock together.
C32_LockOnlyAroundCache ==
    /\ Cardinality(LockHolders) <= 1
    /\ \A c \in LockHolders : calls[c].pc \in {"check", "update"}

\* one worker holds the lock for its update while another waits for it and
\* a third is reading the file
C32_Witness ==
    \E c, d, e \in Loads :
        /\ calls[c].locked /\ calls[c].pc = "update"
        /\ calls[d].pc = "check" /\ ~calls[d].locked
        /\ calls[e].pc = "open"

\* C33: never more than 4 read bodies run at once; the file-read semaphore
\* has between 0 and 8 permits, each running body holds exactly one, and
\* all 8 are free when no body runs.
C33_ReadCeiling ==
    /\ Cardinality(Bodies) <= FILE_WORKERS
    /\ fileSem >= 0 /\ fileSem <= FILE_PERMITS
    /\ fileSem = FILE_PERMITS - Cardinality(Bodies)
    /\ Bodies = {} => fileSem = FILE_PERMITS

\* four bodies run, a fifth call is queued, four permits are left
C33_Witness ==
    /\ Cardinality(Bodies) = FILE_WORKERS
    /\ \E c \in Loads : calls[c].pc = "queued"
    /\ fileSem = FILE_PERMITS - FILE_WORKERS

BothResolved == fout.a # Pending /\ fout.b # Pending

\* C34: with three labels before the suffix the label that starts with t is
\* the customer id, wherever it stands: for a customer id and a site id in range, ip.tC.S.nat64
\* and ip.S.tC.nat64 resolve, and to the same address.
C34_EitherOrder ==
    (BothResolved /\ fin.a.layout = "tc.s" /\ fin.b.layout = "s.tc"
       /\ InRange(fin.a.key)) =>
        /\ fout.a.kind = "addr"
        /\ fout.b = fout.a

C34_Witness ==
    /\ BothResolved
    /\ fin.a.layout = "tc.s" /\ fin.b.layout = "s.tc"
    /\ fin.a.key = [ipv4 |-> <<10, 1, 0, 200>>, customer_id |-> 11184810, site_id |-> 171]
    /\ fout.a.kind = "addr"
    /\ fout.b.addr = <<200, 2561, 43691, 43690, 0, 1, 65435, 100>>

\* C35: with no t on either id label the last label is the customer id and
\* the middle one the site id (ip.S.C.nat64 resolves as ip.tC.S.nat64); with
\* one id label the site id is 0: ip.tC.nat64, ip.C.nat64 and ip.tC.0.nat64
\* resolve to one address, whose site byte is 0.
C35_LegacyAndDefaultSite ==
    (BothResolved /\ InRange(fin.a.key)) =>
        /\ (fin.a.layout = "tc.s" /\ fin.b.layout = "s.c") =>
               fout.a.kind = "addr" /\ fout.b = fout.a
        /\ fin.a.layout = "tc" =>
               /\ fout.a.kind = "addr"
               /\ fout.b = fout.a
               /\ fout.a.addr[3] % 256 = 0
               /\ (fout.a.addr[3] \div 256) + 256 * fout.a.addr[4] = fin.a.key.customer_id

C35_Witness ==
    /\ BothResolved
    /\ fin.a.layout = "tc" /\ fin.b.layout = "tc.s"
    /\ fin.a.key = [ipv4 |-> <<192, 0, 2, 1>>, customer_id |-> 5592405, site_id |-> 0]
    /\ fout.b.kind = "addr"
    /\ fout.a.addr = fout.b.addr

\* C36: the future of an upstream query is completed at most once; once it
\* is done no datagram, error or lost connection changes it, once the query
\* has returned nothing changes what it returned, no callback raises, and a
\* query that returns a datagram returns the first one its association
\* received.
C36_FirstDatagramOnly ==
    [][\A q \in Queries :
          /\ uq[q].future # Pending => uq'[q].future = uq[q].future
          /\ uq[q].ret # Pending => uq'[q].ret = uq[q].ret
          /\ uq'[q].sets <= 1
          /\ uq'[q].fault = "none"
          /\ uq'[q].ret.kind = "some" => uq'[q].ret = uq'[q].first]_vars

\* a query returned its first datagram; a second datagram and the lost
\* connection came after it
C36_Witness ==
    \E q \in Queries :
        /\ uq[q].ret = Some(DATA_1)
        /\ uq[q].future = Some(DATA_1)
        /\ uq[q].late = 2
        /\ uq[q].lost

\* C37: when stat raises FileNotFoundError and the file can be opened, no
\* call is served from the cache: every call that has passed the cache
\* check goes on to open the file, every returned call opened it once and
\* returns the prefix in the file.
C37_UnknownMtimeNeverCached ==
    \A c \in Loads :
        /\ calls[c].pc \in {"check", "open", "update", "returned"} => calls[c].mtime = None
        /\ Done(c) =>
              /\ calls[c].opens = 1
              /\ calls[c].wrote
              /\ calls[c].result = NET_96

\* a call is about to check a cache that already holds the prefix with an
\* unknown modification time, and other calls have returned after an open
C37_Witness ==
    \E c, d, e \in Loads :
        /\ c # d
        /\ Done(c) /\ calls[c].opens = 1
        /\ Done(d) /\ calls[d].opens = 1
        /\ cache.net = NET_96 /\ cache.mtime = None
        /\ calls[e].pc = "open" /\ calls[e].mtime = None

\* C38: the step with which a call returns None (rejected symlink, missing
\* file, failing stat or open, no prefix line, invalid literal) leaves the
\* four fields of the cache as they were, and such a call has never written
\* the cache.
C38_UnavailableKeepsCache ==
    [][\A c \in Loads :
          (~Done(c) /\ calls'[c].pc = "returned" /\ calls'[c].result = None) =>
              /\ cache' = cache
              /\ ~calls'[c].wrote]_vars

\* with the prefix cached, calls have returned None for a rejected symlink,
\* or for a file without a usable prefix, and the cache still holds it
C38_Witness ==
    \E c, d \in Loads :
        /\ Done(c) /\ calls[c].wrote /\ calls[c].result = NET_96
        /\ Done(d) /\ calls[d].result = None
        /\ calls[d].file0 = SymlinkTo(OUTSIDE_PATH)
        /\ calls[d].opens = 0
        /\ cache.net = NET_96 /\ cache.mtime = Some(1)

\* the network written in the version of the file with modification time m:
\* the first version holds 64:ff9b:1::/96 and each replacement changes the
\* content
VersionNet(m) == IF m % 2 = 1 THEN NET_96 ELSE NET_100

\* the cache holds the prefix and the modification time of one version
HoldsVersion(entry) ==
    /\ entry.mtime.kind = "some"
    /\ entry.net = VersionNet(entry.mtime.v)

\* C39: the cache never goes back: once it holds the prefix and the
\* modification time of a version of the file, no step replaces them with
\* the prefix and the modification time of an older version.
C39_NoRegression ==
    [][(HoldsVersion(cache) /\ HoldsVersion(cache')) =>
          cache'.mtime.v >= cache.mtime.v]_vars

\* C40: under a fair scheduler every datagram that parsed is eventually
\* replied to.
C40_ParsedEventuallyReplied ==
    \A t \in 1..MaxDatagrams :
        (t \in Tasks /\ IsQuery(t)) ~> (t \in Tasks /\ Len(sent[t]) = 1)

====
